---- MODULE Spec2Model ----
(***************************************************************************)
(* QuantTrans backtest engine: run_backtest (apps/backtest/engine.py)      *)
(* drives one strategy of apps/backtest/strategies.py over a bar series    *)
(* through the backtrader broker; generate_param_combinations,             *)
(* optimize_single_strategy and batch_backtest_all_strategies              *)
(* (apps/backtest/optimizer.py) run it over parameter grids, and           *)
(* find_best_strategy ranks the results.                                   *)
(*                                                                         *)
(* Money, prices and indicator values are exact rationals <<n, d>> (d > 0, *)
(* lowest terms); Python's floats are read as the reals they approximate.  *)
(* len(self.data) is Len(data): bar number n is data[n], the code's bar    *)
(* index is n - 1.                                                         *)
(***************************************************************************)
EXTENDS Integers, Sequences, FiniteSets, TLC

VARIABLES
    data,      \* the stored candles, oldest first
    runs,      \* run id -> state of that run_backtest call (strategy + broker)
    feed,      \* the kind of series the store holds
    results,   \* the list of results handed to find_best_strategy
    best,      \* what find_best_strategy returned, with the metric asked for
    minutes,   \* the stored minute candles, oldest first
    grids,     \* STRATEGY_PARAM_GRIDS: strategy name -> parameter grid
    opt,       \* the call of the optimizer or of run_backtest under way
    gateway    \* the ExecutionGateway, the tables it reads and writes, its calls

vars == <<data, runs, feed, results, best, minutes, grids, opt, gateway>>

----------------------------------------------------------------------------
(* Exact rational arithmetic standing for the code's float arithmetic.     *)

Abs(x) == IF x < 0 THEN -x ELSE x

RECURSIVE GCD(_, _)
GCD(a, b) == IF b = 0 THEN a ELSE GCD(b, a % b)

Q(n, d) ==
    LET s == IF d < 0 THEN -1 ELSE 1
        g == GCD(Abs(n), Abs(d))
    IN  IF n = 0 THEN <<0, 1>> ELSE <<(s * n) \div g, (s * d) \div g>>

QI(n) == <<n, 1>>
QAdd(a, b) ==
    LET g == GCD(a[2], b[2])
    IN  Q(a[1] * (b[2] \div g) + b[1] * (a[2] \div g), (a[2] \div g) * b[2])
QNeg(a) == <<-a[1], a[2]>>
QSub(a, b) == QAdd(a, QNeg(b))
QMul(a, b) ==
    LET g1 == GCD(Abs(a[1]), b[2])
        g2 == GCD(Abs(b[1]), a[2])
    IN  IF a[1] = 0 \/ b[1] = 0 THEN <<0, 1>>
        ELSE <<(a[1] \div g1) * (b[1] \div g2), (a[2] \div g2) * (b[2] \div g1)>>
QDiv(a, b) == QMul(a, Q(b[2], b[1]))
QLt(a, b) ==
    LET g == GCD(a[2], b[2])
    IN  a[1] * (b[2] \div g) < b[1] * (a[2] \div g)
QLe(a, b) == ~QLt(b, a)
QAbs(a) == <<Abs(a[1]), a[2]>>
QMax(a, b) == IF QLt(a, b) THEN b ELSE a
QZero == <<0, 1>>
\* int(x) of a non-negative value
QFloor(a) == a[1] \div a[2]

Max2(a, b) == IF a < b THEN b ELSE a

RECURSIVE QSum(_, _, _)
\* f[lo] + ... + f[hi], by halves
QSum(f, lo, hi) ==
    IF hi < lo THEN QZero
    ELSE IF lo = hi THEN f[lo]
    ELSE QAdd(QSum(f, lo, (lo + hi) \div 2), QSum(f, (lo + hi) \div 2 + 1, hi))

\* an optional number: Python's None, or a float
None == << >>
Some(v) == <<v>>
Num(x) == x[1]

----------------------------------------------------------------------------
(* Bars and the indicator library (backtrader indicators the strategies    *)
(* build in __init__), evaluated at bar number n over the bars so far.     *)

\* the close line as rationals
CloseLine(d) == [i \in 1..Len(d) |-> QI(d[i].close)]

\* an average over one bar more than the period
SMAOneMore(xs, period, n) ==
    QDiv(QSum(xs, Max2(1, n - period), n), QI(n - Max2(1, n - period) + 1))

\* bt.indicators.SMA(line, period) at bar n (n >= first + period - 1)
SMA(xs, period, n) == QDiv(QSum(xs, n - period + 1, n), QI(period))

\* a line (bar number -> value, from bar `first`) with its value at bar n
Extend(line, first, n, v) == [i \in first..n |-> IF i = n THEN v ELSE line[i]]

\* bt.indicators.EMA at bar n, over a line that starts at bar `first`, from
\* its value `prev` at bar n - 1: seeded by the SMA of the first `period`
\* values, then prev * (1 - a) + x * a with a = 2 / (period + 1)
EMANext(prev, xs, first, period, n) ==
    IF n < first + period - 1 THEN prev
    ELSE IF n = first + period - 1 THEN SMA(xs, period, n)
    ELSE QAdd(QMul(prev, Q(period - 1, period + 1)), QMul(xs[n], Q(2, period + 1)))

\* bt.indicators.SmoothedMovingAverage (Wilder) at bar n: seeded by the SMA,
\* then (prev * (period - 1) + x) / period
SMMANext(prev, xs, first, period, n) ==
    IF n < first + period - 1 THEN prev
    ELSE IF n = first + period - 1 THEN SMA(xs, period, n)
    ELSE QDiv(QAdd(QMul(prev, QI(period - 1)), xs[n]), QI(period))

\* NonZeroDifference of CrossOver: the last non-zero difference up to bar n,
\* the first difference while there is none (diff is defined from bar `first`)
NZD(diff, first, n) ==
    LET nz == {i \in (first + 1)..n : diff[i] # QZero}
    IN  IF nz = {} THEN diff[first]
        ELSE diff[CHOOSE i \in nz : \A j \in nz : j <= i]

\* bt.indicators.CrossOver(a, b) at bar n >= first + 1, diff = a - b:
\* +1 when a was below b and is above, -1 for the opposite, else 0
CrossOver(diff, first, n) ==
    LET before == NZD(diff, first, n - 1)
        up   == QLt(before, QZero) /\ QLt(QZero, diff[n])
        down == QLt(QZero, before) /\ QLt(diff[n], QZero)
    IN  (IF up THEN 1 ELSE 0) - (IF down THEN 1 ELSE 0)

\* UpDay / DownDay lines of RSI (defined from bar 2)
UpDay(d) ==
    [i \in 2..Len(d) |-> QI(Max2(d[i].close - d[i - 1].close, 0))]
DownDay(d) ==
    [i \in 2..Len(d) |-> QI(Max2(d[i - 1].close - d[i].close, 0))]

\* RSI = 100 - 100 / (1 + maup / madown)
RSIValue(maup, madown) ==
    QSub(QI(100), QDiv(QI(100), QAdd(QI(1), QDiv(maup, madown))))

\* the values the indicators of a strategy keep from bar to bar: the two
\* EMAs, the MACD line, its signal and their difference (MACD); the
\* smoothed average gain and loss and the RSI line (RSI)
NoLines ==
    [me1 |-> QZero, me2 |-> QZero, macd |-> << >>, signal |-> QZero, diff |-> << >>,
     maup |-> QZero, madown |-> QZero, rsi |-> << >>]

\* bt.indicators.MACD at bar n: signal = EMA(macd, period_signal), and the
\* difference macd - signal that CrossOver looks at
MACDSignal(L, P, n) ==
    LET m   == Max2(P.fast_period, P.slow_period)
        sig == EMANext(L.signal, L.macd, m, P.signal_period, n)
    IN  [L EXCEPT !.signal = sig,
                  !.diff = IF n >= m + P.signal_period - 1
                             THEN Extend(@, m + P.signal_period - 1, n, QSub(L.macd[n], sig))
                             ELSE @]

\* bt.indicators.MACD at bar n: macd = EMA(close, period_me1) - EMA(close,
\* period_me2)
MACDAdvance(L, xs, P, n) ==
    LET me1 == EMANext(L.me1, xs, 1, P.fast_period, n)
        me2 == EMANext(L.me2, xs, 1, P.slow_period, n)
    IN  MACDSignal([L EXCEPT !.me1 = me1, !.me2 = me2,
                             !.macd = IF n >= Max2(P.fast_period, P.slow_period)
                                        THEN Extend(@, Max2(P.fast_period, P.slow_period),
                                                    n, QSub(me1, me2))
                                        ELSE @], P, n)

\* bt.indicators.RSI at bar n, given the averages: no value while the average
\* loss is zero (rs = maup / madown)
RSILine(L, P, n) ==
    IF n < P.period + 1 \/ L.madown = QZero THEN L
    ELSE [L EXCEPT !.rsi = Extend(@, P.period + 1, n, RSIValue(L.maup, L.madown))]

\* bt.indicators.RSI at bar n: the smoothed averages of UpDay and DownDay
RSIAdvance(L, d, P, n) ==
    RSILine([L EXCEPT !.maup = SMMANext(@, UpDay(d), 2, P.period, n),
                      !.madown = SMMANext(@, DownDay(d), 2, P.period, n)], P, n)

\* the squared rolling standard deviation of BollingerBands (StdDev:
\* mean of squares minus square of mean)
Variance(xs, period, n) ==
    LET sq == [i \in DOMAIN xs |-> QMul(xs[i], xs[i])]
        m  == SMA(xs, period, n)
    IN  QSub(SMA(sq, period, n), QMul(m, m))

\* close[0] < bollinger.bot[0], bot = mid - devfactor * stddev
BelowBot(d, period, devfactor, n) ==
    LET xs  == CloseLine(d)
        gap == QSub(SMA(xs, period, n), xs[n])
    IN  /\ QLt(QZero, gap)
        /\ QLt(QMul(QMul(devfactor, devfactor), Variance(xs, period, n)),
               QMul(gap, gap))

\* close[0] > bollinger.top[0], top = mid + devfactor * stddev
AboveTop(d, period, devfactor, n) ==
    LET xs  == CloseLine(d)
        gap == QSub(xs[n], SMA(xs, period, n))
    IN  /\ QLt(QZero, gap)
        /\ QLt(QMul(QMul(devfactor, devfactor), Variance(xs, period, n)),
               QMul(gap, gap))

----------------------------------------------------------------------------
(* The broker of run_backtest: bt.Cerebro's default BackBroker with        *)
(* setcash(initial_cash), setcommission(commission) and PercentSizer(95).  *)

\* cerebro.addsizer(bt.sizers.PercentSizer, percents=95)
SizerPercents == 95

\* self.order = None
NoOrder == 0

\* self.highest_price = None
NoPrice == <<0, 0>>

\* the state of one run after construction (cerebro.broker.setcash,
\* setcommission, addstrategy and the strategy's __init__)
NewRun(strategy, params, initial_cash, commission, end_date, today) ==
    [ strategy     |-> strategy,
      \* the end_date argument and date.today() at the time of the call
      end_date     |-> end_date,
      today        |-> today,
      params       |-> params,
      startingcash |-> QI(initial_cash),
      commission   |-> commission,
      status       |-> "running",
      \* broker
      cash         |-> QI(initial_cash),
      possize      |-> QZero,
      posprice     |-> QZero,
      submitted    |-> << >>,
      notifs       |-> << >>,
      nextref      |-> 1,
      \* trade bookkeeping (bt.Trade, bt.analyzers.TradeAnalyzer)
      tradecomm    |-> QZero,
      tradepnl     |-> QZero,
      closedpnl    |-> << >>,
      total_trades |-> 0,
      \* strategy
      order        |-> NoOrder,
      highest_price |-> NoPrice,
      \* what a comparison of the delayed lines built inside next()
      \* (self.data.open(-1), ...) does: see DelayedLines
      delayed      |-> "values",
      entry_prices |-> << >>,
      entry_sizes  |-> << >>,
      lines        |-> NoLines,
      equity_curve |-> << >>,
      trade_points |-> << >>,
      \* history of the run, kept for stating properties
      orderlog     |-> << >>,
      notiflog     |-> << >>,
      stops        |-> << >> ]

\* broker.getvalue(): cash plus the position marked at the current close
GetValue(st, bar) == QAdd(st.cash, QMul(st.possize, QI(bar.close)))

\* a commission scheme that charges nothing
GetCommissionFree(st, size, price) == QZero

\* CommInfoBase.getcommission: abs(size) * commission * price
GetCommission(st, size, price) == QMul(QMul(QAbs(size), st.commission), price)

\* Position.update / pseudoupdate: the new size and price of the position and
\* the parts of the order that open and that close
PositionUpdate(oldsize, oldprice, size, price) ==
    LET newsize == QAdd(oldsize, size)
        avg == QDiv(QAdd(QMul(oldprice, oldsize), QMul(size, price)), newsize)
    IN  IF newsize = QZero
          THEN [size |-> newsize, price |-> QZero, opened |-> QZero, closed |-> size]
        ELSE IF oldsize = QZero
          THEN [size |-> newsize, price |-> price, opened |-> size, closed |-> QZero]
        ELSE IF QLt(QZero, oldsize)
          THEN IF QLt(QZero, size)
                 THEN [size |-> newsize, price |-> avg, opened |-> size, closed |-> QZero]
               ELSE IF QLt(QZero, newsize)
                 THEN [size |-> newsize, price |-> oldprice, opened |-> QZero, closed |-> size]
               ELSE [size |-> newsize, price |-> price,
                     opened |-> newsize, closed |-> QNeg(oldsize)]
        ELSE IF QLt(size, QZero)
                 THEN [size |-> newsize, price |-> avg, opened |-> size, closed |-> QZero]
               ELSE IF QLt(newsize, QZero)
                 THEN [size |-> newsize, price |-> oldprice, opened |-> QZero, closed |-> size]
               ELSE [size |-> newsize, price |-> price,
                     opened |-> newsize, closed |-> QNeg(oldsize)]

\* a broker that reports the commissions but does not take them from cash
CashAfterUncharged(st, cash, up, price) ==
    [afterclose |-> QSub(cash, QMul(up.closed, price)),
     afteropen  |-> QSub(QSub(cash, QMul(up.closed, price)), QMul(up.opened, price)),
     closecomm  |-> GetCommission(st, up.closed, price),
     opencomm   |-> GetCommission(st, up.opened, price)]

\* BackBroker._execute: the cash after the closing part is credited and the
\* opening part and both commissions are paid, at `price`
CashAfter(st, cash, up, price) ==
    LET closecomm == IF up.closed = QZero THEN QZero
                     ELSE GetCommission(st, up.closed, price)
        c1 == QSub(QSub(cash, QMul(up.closed, price)), closecomm)
        opencomm == IF up.opened = QZero THEN QZero
                    ELSE GetCommission(st, up.opened, price)
    IN  [afterclose |-> c1,
         afteropen  |-> QSub(QSub(c1, QMul(up.opened, price)), opencomm),
         closecomm  |-> closecomm,
         opencomm   |-> opencomm]

\* BackBroker.check_submitted: the pseudo-execution of a submitted order at the
\* price it was created with must leave cash >= 0
SubmitAccepted(st, o) ==
    LET up == PositionUpdate(st.possize, st.posprice, o.size, o.created)
        c  == CashAfter(st, st.cash, up, o.created)
    IN  ~QLt(c.afteropen, QZero)

\* what the strategy is told about an order: its status and, once executed,
\* the executed price and size
Notification(status, o, price, size) ==
    [status |-> status, ref |-> o.ref, isbuy |-> QLt(QZero, o.size),
     price |-> price, size |-> size]

\* BackBroker._execute for a Market order at the bar's open, given the
\* position update `up` and the cash `c` it leads to: the opening part is
\* dropped when it would leave cash < 0; the position, cash and trade
\* bookkeeping change by what was executed, and Completed (or Partial) and
\* Margin are queued for the strategy
Executed(st, o, price, up, c) ==
    LET nocash  == up.opened # QZero /\ QLt(c.afteropen, QZero)
        opencomm == IF nocash THEN QZero ELSE c.opencomm
        execsz  == IF nocash THEN up.closed ELSE QAdd(up.closed, up.opened)
        \* bt.Trade: the closing part ends the trade when the size returns
        \* to zero; an opening part from zero starts the next one
        flat    == QAdd(st.possize, up.closed) = QZero
        closes  == up.closed # QZero /\ flat
        pnl1    == QAdd(st.tradepnl, QMul(QNeg(up.closed), QSub(price, st.posprice)))
        comm1   == QAdd(st.tradecomm, c.closecomm)
    IN  IF execsz = QZero
          THEN [st EXCEPT !.notifs = @ \o
                   (IF nocash THEN << Notification("Margin", o, QZero, QZero) >>
                    ELSE << >>)]
        ELSE [st EXCEPT
                !.cash = IF nocash THEN c.afterclose ELSE c.afteropen,
                !.possize = IF nocash THEN QAdd(st.possize, up.closed) ELSE up.size,
                !.posprice = IF ~nocash THEN up.price
                             ELSE IF flat THEN QZero ELSE st.posprice,
                !.closedpnl = IF closes THEN Append(@, QSub(pnl1, comm1)) ELSE @,
                !.tradepnl = IF closes THEN QZero ELSE pnl1,
                !.tradecomm = IF closes THEN opencomm ELSE QAdd(comm1, opencomm),
                !.total_trades = IF ~nocash /\ up.opened # QZero /\ flat
                                   THEN @ + 1 ELSE @,
                !.notifs = @ \o
                   << Notification(IF execsz = o.size THEN "Completed" ELSE "Partial",
                                   o, price, execsz) >> \o
                   (IF nocash THEN << Notification("Margin", o, QZero, QZero) >>
                    ELSE << >>)]

ExecuteAt(st, o, price, up) ==
    Executed(st, o, price, up, CashAfter(st, st.cash, up, price))

ExecuteOrder(st, o, price) ==
    ExecuteAt(st, o, price, PositionUpdate(st.possize, st.posprice, o.size, price))

\* BackBroker.next for one order submitted during the previous bar: it is
\* notified Submitted, checked (check_submitted: Accepted or Margin) and,
\* being a Market order, executed at this bar's open
ProcessOrder(st, o, bar) ==
    IF ~SubmitAccepted(st, o)
      THEN [st EXCEPT !.notifs = @ \o << Notification("Submitted", o, QZero, QZero),
                                         Notification("Margin", o, QZero, QZero) >>]
      ELSE ExecuteOrder(
             [st EXCEPT !.notifs = @ \o << Notification("Submitted", o, QZero, QZero),
                                           Notification("Accepted", o, QZero, QZero) >>],
             o, QI(bar.open))

RECURSIVE BrokerNext(_, _, _)
\* BackBroker.next: the orders of the previous bar, oldest first
BrokerNext(st, pending, bar) ==
    IF pending = << >> THEN st
    ELSE BrokerNext(ProcessOrder(st, Head(pending), bar), Tail(pending), bar)

----------------------------------------------------------------------------
(* The strategies (apps/backtest/strategies.py).                           *)

\* `if self.position` / `if not self.position`: Position.__bool__ is size != 0
HasPosition(st) == st.possize # QZero

\* a sizer that applies its percentage to the position as well
GetSizingPercentOfPosition(st, bar) ==
    IF ~HasPosition(st)
      THEN QMul(QDiv(st.cash, QI(bar.close)), Q(SizerPercents, 100))
      ELSE QMul(st.possize, Q(SizerPercents, 100))

\* PercentSizer._getsizing: 95% of cash at the current close when flat, the
\* whole position otherwise
GetSizing(st, bar) ==
    IF ~HasPosition(st)
      THEN QMul(QDiv(st.cash, QI(bar.close)), Q(SizerPercents, 100))
      ELSE st.possize

\* Strategy.buy / Strategy.sell followed by `self.order = ...`: a size of zero
\* submits nothing and leaves None in self.order; otherwise the Market order
\* is created at the current close and queued in the broker
Submit(st, d, isbuy, size) ==
    LET n   == Len(d)
        sz  == QAbs(size)
        o   == [ref |-> st.nextref, size |-> IF isbuy THEN sz ELSE QNeg(sz),
                created |-> QI(d[n].close), bar |-> n]
    IN  IF sz = QZero THEN [st EXCEPT !.order = NoOrder]
        ELSE [st EXCEPT !.submitted = Append(@, o),
                        !.nextref = @ + 1,
                        !.order = o.ref,
                        !.orderlog = Append(@, [bar |-> n, isbuy |-> isbuy,
                                                size |-> sz,
                                                ref |-> o.ref, pending |-> st.order])]

\* self.buy() / self.sell() sized by the sizer
Buy(st, d) == Submit(st, d, TRUE, GetSizing(st, d[Len(d)]))

\* a self.sell() of one share more than the sizer gives
SellOneShareMore(st, d) == Submit(st, d, FALSE, QAdd(GetSizing(st, d[Len(d)]), QI(1)))

Sell(st, d) == Submit(st, d, FALSE, GetSizing(st, d[Len(d)]))

TerminalStatus == {"Completed", "Canceled", "Margin", "Rejected"}

\* a notify_order without the early return on Submitted / Accepted: every
\* notification empties self.order
NotifyOrderAnyStatus(st, nf, d) ==
    [st EXCEPT !.order = NoOrder,
               !.notiflog = Append(@, [status |-> nf.status, before |-> st.order,
                                       after |-> NoOrder, bar |-> Len(d)])]

\* a notify_order that empties self.order on Completed only: a rejected
\* order stays in the field
NotifyOrderCompletedOnly(st, nf, d) ==
    LET bar == d[Len(d)]
        point == [bar |-> Len(d), type |-> IF nf.isbuy THEN "buy" ELSE "sell",
                  price |-> nf.price, value |-> GetValue(st, bar)]
    IN  IF nf.status = "Completed"
          THEN [st EXCEPT
                  !.trade_points = Append(@, point),
                  !.order = NoOrder,
                  !.notiflog = Append(@, [status |-> nf.status, before |-> st.order,
                                          after |-> NoOrder, bar |-> Len(d)])]
        ELSE [st EXCEPT
                  !.notiflog = Append(@, [status |-> nf.status, before |-> st.order,
                                          after |-> st.order, bar |-> Len(d)])]

\* a notify_order that keeps the entry memory of Pyramid Add when the
\* position is sold
NotifyOrderKeepingEntries(st, nf, d) ==
    LET bar == d[Len(d)]
        point == [bar |-> Len(d), type |-> IF nf.isbuy THEN "buy" ELSE "sell",
                  price |-> nf.price, value |-> GetValue(st, bar)]
        log(after) == [status |-> nf.status, before |-> st.order,
                       after |-> after, bar |-> Len(d)]
    IN  IF nf.status \in {"Submitted", "Accepted"}
          THEN [st EXCEPT !.notiflog = Append(@, log(st.order))]
        ELSE IF nf.status = "Completed"
          THEN [st EXCEPT
                  !.trade_points = Append(@, point),
                  !.entry_prices = IF nf.isbuy THEN Append(@, nf.price) ELSE @,
                  !.entry_sizes = IF nf.isbuy
                                    THEN Append(@, QDiv(QMul(nf.price, nf.size),
                                                        GetValue(st, bar)))
                                    ELSE @,
                  !.order = NoOrder,
                  !.notiflog = Append(@, log(NoOrder))]
        ELSE [st EXCEPT !.order = NoOrder,
                        !.notiflog = Append(@, log(NoOrder))]

\* notify_order, the same in every strategy: Submitted and Accepted return at
\* once; Completed records the trade point; every other status falls through
\* to self.order = None.  Trend Following and Pyramid Add also keep their
\* entry memory here.
NotifyOrder(st, nf, d) ==
    LET bar == d[Len(d)]
        point == [bar |-> Len(d), type |-> IF nf.isbuy THEN "buy" ELSE "sell",
                  price |-> nf.price, value |-> GetValue(st, bar)]
        log(after) == [status |-> nf.status, before |-> st.order,
                       after |-> after, bar |-> Len(d)]
    IN  IF nf.status \in {"Submitted", "Accepted"}
          THEN [st EXCEPT !.notiflog = Append(@, log(st.order))]
        ELSE IF nf.status = "Completed"
          THEN [st EXCEPT
                  !.trade_points = Append(@, point),
                  !.highest_price =
                      IF st.strategy = "trend_following"
                        THEN (IF nf.isbuy THEN nf.price ELSE NoPrice)
                      ELSE IF st.strategy = "pyramid_add" /\ ~nf.isbuy /\ ~HasPosition(st)
                        THEN NoPrice
                      ELSE @,
                  !.entry_prices =
                      IF st.strategy = "pyramid_add"
                        THEN (IF nf.isbuy THEN Append(@, nf.price)
                              ELSE IF ~HasPosition(st) THEN << >> ELSE @)
                      ELSE @,
                  \* position_size = executed price * size / total_value
                  !.entry_sizes =
                      IF st.strategy = "pyramid_add"
                        THEN (IF nf.isbuy
                                THEN Append(@, IF QLt(QZero, GetValue(st, bar))
                                                 THEN QDiv(QMul(nf.price, nf.size),
                                                           GetValue(st, bar))
                                                 ELSE QZero)
                              ELSE IF ~HasPosition(st) THEN << >> ELSE @)
                      ELSE @,
                  !.order = NoOrder,
                  !.notiflog = Append(@, log(NoOrder))]
        ELSE [st EXCEPT !.order = NoOrder,
                        !.notiflog = Append(@, log(NoOrder))]

RECURSIVE NotifyAll(_, _, _)
\* Strategy._notify: the queued notifications, in order, before next()
NotifyAll(st, notifs, d) ==
    IF notifs = << >> THEN st
    ELSE NotifyAll(NotifyOrder(st, Head(notifs), d), Tail(notifs), d)

\* the first lines of every next(): one equity point for the current bar
RecordEquity(st, d) ==
    LET bar == d[Len(d)]
        v   == GetValue(st, bar)
    IN  [st EXCEPT !.equity_curve = Append(@, [bar |-> Len(d), value |-> v])]

\* fast SMA minus slow SMA, from the first bar where both exist
MADiff(d, fast, slow) ==
    LET xs == CloseLine(d)
    IN  [i \in Max2(fast, slow)..Len(d) |-> QSub(SMA(xs, fast, i), SMA(xs, slow, i))]

\* a MACrossStrategy.next that also trades when the averages did not cross
MACrossNextLoose(st, d) ==
    LET n  == Len(d)
        P  == st.params
        crossover_value == CrossOver(MADiff(d, P.fast_period, P.slow_period),
                                     Max2(P.fast_period, P.slow_period), n)
    IN  IF n < P.slow_period + 1 THEN st
        ELSE IF st.order # NoOrder THEN st
        ELSE IF ~HasPosition(st)
          THEN (IF crossover_value >= 0 THEN Buy(st, d) ELSE st)
        ELSE (IF crossover_value <= 0 THEN Sell(st, d) ELSE st)

\* MACrossStrategy.next after the equity point
MACrossNext(st, d) ==
    LET n  == Len(d)
        P  == st.params
        crossover_value == CrossOver(MADiff(d, P.fast_period, P.slow_period),
                                     Max2(P.fast_period, P.slow_period), n)
    IN  IF n < P.slow_period + 1 THEN st
        ELSE IF st.order # NoOrder THEN st
        ELSE IF ~HasPosition(st)
          THEN (IF crossover_value > 0 THEN Buy(st, d) ELSE st)
        ELSE (IF crossover_value < 0 THEN Sell(st, d) ELSE st)

\* a MACDStrategy.next without its own warm-up guard
MACDNextUnguarded(st, d) ==
    LET n  == Len(d)
        P  == st.params
        crossover_value ==
            CrossOver(st.lines.diff,
                      Max2(P.fast_period, P.slow_period) + P.signal_period - 1, n)
    IN  IF st.order # NoOrder THEN st
        ELSE IF ~HasPosition(st)
          THEN (IF crossover_value > 0 THEN Buy(st, d) ELSE st)
        ELSE (IF crossover_value < 0 THEN Sell(st, d) ELSE st)

\* MACDStrategy.next after the equity point
MACDNext(st, d) ==
    LET n  == Len(d)
        P  == st.params
        min_period == P.slow_period + P.signal_period
        crossover_value ==
            CrossOver(st.lines.diff,
                      Max2(P.fast_period, P.slow_period) + P.signal_period - 1, n)
    IN  IF n < min_period + 1 THEN st
        ELSE IF st.order # NoOrder THEN st
        ELSE IF ~HasPosition(st)
          THEN (IF crossover_value > 0 THEN Buy(st, d) ELSE st)
        ELSE (IF crossover_value < 0 THEN Sell(st, d) ELSE st)

\* an RSIStrategy.next with the two thresholds exchanged
RSINextInverted(st, d) ==
    LET n  == Len(d)
        P  == st.params
        rsi_value == st.lines.rsi[n]
    IN  IF n < P.period + 1 THEN st
        ELSE IF st.order # NoOrder THEN st
        ELSE IF ~HasPosition(st)
          THEN (IF QLt(QI(P.overbought), rsi_value) THEN Buy(st, d) ELSE st)
        ELSE (IF QLt(rsi_value, QI(P.oversold)) THEN Sell(st, d) ELSE st)

\* RSIStrategy.next after the equity point
RSINext(st, d) ==
    LET n  == Len(d)
        P  == st.params
        rsi_value == st.lines.rsi[n]
    IN  IF n < P.period + 1 THEN st
        ELSE IF st.order # NoOrder THEN st
        ELSE IF ~HasPosition(st)
          THEN (IF QLt(rsi_value, QI(P.oversold)) THEN Buy(st, d) ELSE st)
        ELSE (IF QLt(QI(P.overbought), rsi_value) THEN Sell(st, d) ELSE st)

\* BollingerBandsStrategy.next after the equity point
BollingerNext(st, d) ==
    LET n  == Len(d)
        P  == st.params
    IN  IF st.order # NoOrder THEN st
        ELSE IF ~HasPosition(st)
          THEN (IF BelowBot(d, P.period, P.devfactor, n) THEN Buy(st, d) ELSE st)
        ELSE (IF AboveTop(d, P.period, P.devfactor, n) THEN Sell(st, d) ELSE st)

\* TripleMAStrategy.next after the equity point
TripleMANext(st, d) ==
    LET n    == Len(d)
        P    == st.params
        xs   == CloseLine(d)
        fast == SMA(xs, P.fast_period, n)
        mid  == SMA(xs, P.mid_period, n)
        slow == SMA(xs, P.slow_period, n)
    IN  IF st.order # NoOrder THEN st
        ELSE IF ~HasPosition(st)
          THEN (IF QLt(mid, fast) /\ QLt(slow, mid) THEN Buy(st, d) ELSE st)
        ELSE (IF QLt(fast, mid) \/ QLt(mid, slow) THEN Sell(st, d) ELSE st)

\* MeanReversionStrategy.next after the equity point
MeanReversionNext(st, d) ==
    LET n  == Len(d)
        P  == st.params
        price == QI(d[n].close)
        ma_value == SMA(CloseLine(d), P.period, n)
        deviation == IF QLt(QZero, ma_value)
                       THEN QDiv(QSub(price, ma_value), ma_value) ELSE QZero
    IN  IF st.order # NoOrder THEN st
        ELSE IF ~HasPosition(st)
          THEN (IF QLt(deviation, QNeg(P.threshold)) THEN Buy(st, d) ELSE st)
        ELSE (IF QLt(P.threshold, deviation) THEN Sell(st, d) ELSE st)

\* a PyramidAddStrategy sizing that rounds up to one share
PyramidBuyOneShareAtLeast(st, d) ==
    LET bar  == d[Len(d)]
        size == QFloor(QDiv(QMul(GetValue(st, bar), st.params.initial_position_size),
                            QI(bar.close)))
    IN  Submit(st, d, TRUE, QI(Max2(size, 1)))

\* PyramidAddStrategy: size = int(total_value * initial_position_size /
\* current_price), and self.order = self.buy(size=size) when size > 0
PyramidBuy(st, d) ==
    LET bar  == d[Len(d)]
        size == QFloor(QDiv(QMul(GetValue(st, bar), st.params.initial_position_size),
                            QI(bar.close)))
    IN  IF size > 0 THEN Submit(st, d, TRUE, QI(size)) ELSE st

\* the trailing stop: the close fell stop_loss_pct below the highest price
TrailingStop(st, d) ==
    /\ st.highest_price \notin {NoPrice, QZero}
    /\ QLt(QI(d[Len(d)].close),
           QMul(st.highest_price, QSub(QI(1), st.params.stop_loss_pct)))

\* the stop on the first entry: the close fell stop_loss_pct below it
HardStop(st, d) ==
    QLt(QI(d[Len(d)].close),
        QMul(st.entry_prices[1], QSub(QI(1), st.params.stop_loss_pct)))

\* the stop on the first entry looked at before the trailing stop
StopRuleHardFirst(st, d) ==
    IF HardStop(st, d) THEN "hard"
    ELSE IF TrailingStop(st, d) THEN "trailing"
    ELSE "none"

\* the stop that sells, if any: the trailing stop is looked at first
StopRule(st, d) ==
    IF TrailingStop(st, d) THEN "trailing"
    ELSE IF HardStop(st, d) THEN "hard"
    ELSE "none"

\* the close is add_position_threshold above the entry price
GainedOn(st, d, entry_price) ==
    QLt(QMul(entry_price, QAdd(QI(1), st.params.add_position_threshold)),
        QI(d[Len(d)].close))

\* an add rule that looks at the latest entry only
AddSignalLatestOnly(st, d) == GainedOn(st, d, st.entry_prices[Len(st.entry_prices)])

\* the add rule: the close has gained on the first entry and, once there
\* was an add, on the latest entry as well
AddSignal(st, d) ==
    /\ GainedOn(st, d, st.entry_prices[1])
    /\ \/ Len(st.entry_prices) = 1
       \/ GainedOn(st, d, st.entry_prices[Len(st.entry_prices)])

\* self.log(...) of the stop, then self.order = self.sell(size=position_size)
PyramidStop(st, d, rule) ==
    [Submit(st, d, FALSE, st.possize)
       EXCEPT !.stops = Append(@, [bar |-> Len(d), rule |-> rule])]

\* PyramidAddStrategy.next with a position and an entry on record, once the
\* highest price is brought up to date: the trailing stop, the stop on the
\* first entry, then the add rule
PyramidManage(st, d) ==
    IF ~QLt(QZero, st.possize) THEN st
    ELSE IF StopRule(st, d) # "none" THEN PyramidStop(st, d, StopRule(st, d))
    ELSE IF AddSignal(st, d) THEN PyramidBuy(st, d)
    ELSE st

\* PyramidAddStrategy.next after the equity point
PyramidAddNext(st, d) ==
    LET n  == Len(d)
        P  == st.params
        current_price == QI(d[n].close)
        market_sentiment_good == QLt(SMA(CloseLine(d), P.ma_period, n), current_price)
        high_open == QLt(QMul(QI(d[n - 1].close), QAdd(QI(1), P.high_open_threshold)),
                         QI(d[n].open))
    IN  IF n < P.ma_period + 1 THEN st
        ELSE IF st.order # NoOrder THEN st
        ELSE IF ~HasPosition(st)
          THEN (IF market_sentiment_good /\ high_open THEN PyramidBuy(st, d) ELSE st)
        ELSE IF st.entry_prices = << >> THEN st
        ELSE PyramidManage(
               [st EXCEPT !.highest_price =
                    IF @ = NoPrice THEN current_price ELSE QMax(@, current_price)], d)

\* an end boundary that is always the day of the call
EndToday(st) == st.today

\* effective_end_date = min(end_date, today)
EffectiveEndDate(st) == IF st.end_date <= st.today THEN st.end_date ELSE st.today

\* bt.indicators.Highest(self.data.high, period) and
\* bt.indicators.Lowest(self.data.low, period) at bar n
Highest(d, period, n) ==
    CHOOSE h \in {d[i].high : i \in n - period + 1 .. n} :
        \A i \in n - period + 1 .. n : d[i].high <= h

Lowest(d, period, n) ==
    CHOOSE l \in {d[i].low : i \in n - period + 1 .. n} :
        \A i \in n - period + 1 .. n : l <= d[i].low

\* data.buflen(): the bars run_backtest preloaded into the feed, the stored
\* days up to the effective end date
Buflen(st) == EffectiveEndDate(st)

\* SwingTradingStrategy.next: self.data.high[i] for i in range(1, max_idx)
\* indexes the bars AFTER the current one in the preloaded buffer and raises
\* IndexError when one of them lies past its end
ReadsPastEnd(st, n) ==
    LET max_idx == IF st.params.swing_period + 1 < n
                     THEN st.params.swing_period + 1 ELSE n
    IN  n + (max_idx - 1) > Buflen(st)

\* SwingTradingStrategy.next after the equity point: the buy test sits in
\* the except branch of the pullback computation, where pullback = 0
SwingNext(st, d) ==
    LET n  == Len(d)
        P  == st.params
        current_price == QI(d[n].close)
        uptrend == QLt(SMA(CloseLine(d), P.trend_period, n), SMA(CloseLine(d), 10, n))
        buy_price == st.posprice
        profit_pct == IF QLt(QZero, buy_price)
                        THEN QDiv(QSub(current_price, buy_price), buy_price)
                        ELSE QZero
    IN  IF st.order # NoOrder THEN st
        ELSE IF n < P.trend_period THEN st
        ELSE IF ~HasPosition(st)
          THEN (IF /\ uptrend
                   /\ n >= P.swing_period + 1
                   /\ ReadsPastEnd(st, n)
                   /\ \/ QLe(current_price,
                              QMul(QI(Lowest(d, P.swing_period, n)), Q(51, 50)))
                      \/ QLe(P.pullback_ratio, QZero)
                  THEN Buy(st, d) ELSE st)
        ELSE IF QLe(P.profit_target, profit_pct) THEN Sell(st, d)
        ELSE IF QLe(profit_pct, QNeg(P.stop_loss)) THEN Sell(st, d)
        ELSE IF ~uptrend THEN Sell(st, d)
        ELSE IF QLe(QMul(QI(Highest(d, P.swing_period, n)), Q(49, 50)), current_price)
          THEN Sell(st, d)
        ELSE st

\* the characters of the pattern names and of the pattern_type values
Text(name) ==
    CASE name = "bullish_hammer" ->
           <<"b","u","l","l","i","s","h","_","h","a","m","m","e","r">>
      [] name = "bearish_hammer" ->
           <<"b","e","a","r","i","s","h","_","h","a","m","m","e","r">>
      [] name = "bullish_engulfing" ->
           <<"b","u","l","l","i","s","h","_","e","n","g","u","l","f","i","n","g">>
      [] name = "bearish_engulfing" ->
           <<"b","e","a","r","i","s","h","_","e","n","g","u","l","f","i","n","g">>
      [] name = "doji" -> <<"d","o","j","i">>
      [] name = "hammer" -> <<"h","a","m","m","e","r">>
      [] name = "engulfing" -> <<"e","n","g","u","l","f","i","n","g">>
      [] name = "all" -> <<"a","l","l">>

\* pattern.startswith(self.params.pattern_type)
StartsWith(pattern, prefix) ==
    /\ Len(Text(prefix)) <= Len(Text(pattern))
    /\ SubSeq(Text(pattern), 1, Len(Text(prefix))) = Text(prefix)

\* the ways a comparison of the delayed lines that detect_pattern and next()
\* build inside next() (self.data.open(-1), self.data.close(-n): line
\* objects, not numbers) can come out: on the values the lines hold at the
\* bar, or with a TypeError when the line operation is taken for a truth
\* value
DelayedLines == {"values", "raises"}

\* CandlestickStrategy.detect_pattern on bar n >= 2 when the comparisons are
\* made on values: the patterns in the order they are appended
Patterns(d, n, P) ==
    LET open0 == QI(d[n].open)     close0 == QI(d[n].close)
        high0 == QI(d[n].high)     low0 == QI(d[n].low)
        open1 == QI(d[n - 1].open) close1 == QI(d[n - 1].close)
        body0 == QAbs(QSub(close0, open0))
        range0 == QSub(high0, low0)
        upper_shadow == QSub(high0, QMax(open0, close0))
        lower_shadow == QSub(IF QLt(open0, close0) THEN open0 ELSE close0, low0)
        body_ratio == QDiv(body0, range0)
        hammer ==
            IF /\ QLt(QZero, range0)
               /\ QLe(QMul(body0, P.min_shadow_ratio), lower_shadow)
               /\ QLe(upper_shadow, QMul(body0, Q(1, 2)))
               /\ QLt(body_ratio, P.min_body_ratio)
              THEN (IF QLt(open1, close1) THEN <<"bullish_hammer">>
                    ELSE <<"bearish_hammer">>)
              ELSE << >>
        bullish_engulfing ==
            IF /\ QLt(close1, open1) /\ QLt(open0, close0)
               /\ QLt(open0, close1) /\ QLt(open1, close0)
              THEN <<"bullish_engulfing">> ELSE << >>
        bearish_engulfing ==
            IF /\ QLt(open1, close1) /\ QLt(close0, open0)
               /\ QLt(close1, open0) /\ QLt(close0, open1)
              THEN <<"bearish_engulfing">> ELSE << >>
        doji ==
            IF QLt(QZero, range0) /\ QLt(body_ratio, Q(1, 10))
              THEN <<"doji">> ELSE << >>
    IN  hammer \o bullish_engulfing \o bearish_engulfing \o doji

\* CandlestickStrategy.detect_pattern: None below two bars, else the first
\* of the patterns (None as the empty sequence)
DetectPattern(d, P) ==
    IF Len(d) < 2 THEN << >>
    ELSE IF Patterns(d, Len(d), P) = << >> THEN << >>
    ELSE <<Patterns(d, Len(d), P)[1]>>

\* self.params.pattern_type == 'all' or pattern.startswith(pattern_type)
TypeMatches(P, pattern) ==
    P.pattern_type = "all" \/ StartsWith(pattern, P.pattern_type)

\* CandlestickStrategy.next after the equity point
CandlestickNext(st, d) ==
    LET n == Len(d)
        P == st.params
        pattern == DetectPattern(d, P)
    IN  IF st.order # NoOrder THEN st
        \* detect_pattern: `close1 < open1 and ...` on delayed lines
        ELSE IF n >= 2 /\ st.delayed = "raises" THEN [st EXCEPT !.status = "error"]
        ELSE IF ~HasPosition(st)
          THEN (IF /\ pattern # << >>
                   /\ pattern[1] \in {"bullish_hammer", "bullish_engulfing", "doji"}
                   /\ TypeMatches(P, pattern[1])
                   /\ n > P.confirmation_period
                   /\ d[n].close > d[n - P.confirmation_period].close
                  THEN Buy(st, d) ELSE st)
        ELSE IF pattern # << >>
                 /\ pattern[1] \in {"bearish_hammer", "bearish_engulfing"}
          THEN Sell(st, d)
        ELSE IF QLt(QI(d[n].close), QMul(st.posprice, Q(19, 20))) THEN Sell(st, d)
        ELSE st

\* bt.indicators.TrueRange: max(high, close(-1)) - min(low, close(-1)), from
\* the second bar on
TrueRange(d) ==
    [i \in 1..Len(d) |->
       IF i = 1 THEN QZero
       ELSE QSub(QMax(QI(d[i].high), QI(d[i - 1].close)),
                 IF d[i].low < d[i - 1].close THEN QI(d[i].low)
                 ELSE QI(d[i - 1].close))]

RECURSIVE ATR(_, _, _)
\* bt.indicators.ATR(self.data, period) at bar n >= period + 1: the smoothed
\* moving average of the true range
ATR(d, period, n) ==
    IF n <= period + 1 THEN SMMANext(QZero, TrueRange(d), 2, period, n)
    ELSE SMMANext(ATR(d, period, n - 1), TrueRange(d), 2, period, n)

\* the ATR line, and the volume line
ATRLine(d, period) ==
    [i \in 1..Len(d) |-> IF i >= period + 1 THEN ATR(d, period, i) ELSE QZero]

VolumeLine(d) == [i \in 1..Len(d) |-> QI(d[i].volume)]

\* price_breakout, were the high taken over the lookback bars before the
\* current one
PriceBreakoutOverEarlierBars(st, d) ==
    QLt(QMul(QI(Highest(d, st.params.lookback, Len(d) - 1)),
             st.params.breakout_threshold),
        QI(d[Len(d)].close))

\* price_breakout = current_price > recent_high * breakout_threshold, with
\* recent_high = Highest(self.data.high, period=lookback)[0]
PriceBreakout(st, d) ==
    QLt(QMul(QI(Highest(d, st.params.lookback, Len(d))),
             st.params.breakout_threshold),
        QI(d[Len(d)].close))

\* a stop at the factor of the breakdown test
VcpStopLossAtBreakdownFactor(st, d) ==
    QLt(QI(d[Len(d)].close), QMul(st.posprice, Q(49, 50)))

\* current_price < self.position.price * 0.92
VcpStopLoss(st, d) == QLt(QI(d[Len(d)].close), QMul(st.posprice, Q(23, 25)))

\* break_down = current_price < recent_low * 0.98, with recent_low the
\* Lowest(self.data.low, period=lookback) that next() builds at the bar
VcpBreakDown(st, d) ==
    QLt(QI(d[Len(d)].close),
        QMul(QI(Lowest(d, st.params.lookback, Len(d))), Q(49, 50)))

\* VCPStrategy.next after the equity point.  The indicator built inside
\* next() has no value at the bar unless backtrader computes it there: its
\* [0] yields the lowest low (DelayedLines "values") or raises IndexError,
\* which the except branch turns into the stop-loss test alone
VCPNext(st, d) ==
    LET n == Len(d)
        P == st.params
        current_atr == ATR(d, P.lookback, n)
        avg_volume == SMA(VolumeLine(d), P.lookback, n)
        avg_atr == SMA(ATRLine(d, P.lookback), P.lookback, n)
        volatility_contracted == QLt(current_atr, QMul(avg_atr, P.contraction_ratio))
        volume_contracted == QLt(QI(d[n].volume), QMul(avg_volume, P.volume_ratio))
    IN  IF st.order # NoOrder THEN st
        ELSE IF n < P.lookback * 2 THEN st
        ELSE IF QLe(current_atr, QZero) \/ QLe(avg_volume, QZero) \/ QLe(avg_atr, QZero)
          THEN st
        ELSE IF ~HasPosition(st)
          THEN (IF volatility_contracted /\ volume_contracted /\ PriceBreakout(st, d)
                  THEN Buy(st, d) ELSE st)
        ELSE IF st.delayed = "raises"
          THEN (IF VcpStopLoss(st, d) THEN Sell(st, d) ELSE st)
        ELSE IF Lowest(d, P.lookback, n) > 0
          THEN (IF VcpStopLoss(st, d) \/ VcpBreakDown(st, d) THEN Sell(st, d) ELSE st)
        ELSE IF VcpStopLoss(st, d) THEN Sell(st, d)
        ELSE st

\* the directional movement of bt.indicators.ADX, from the second bar on:
\* upmove = high - high(-1), downmove = low(-1) - low; +DM is the upmove
\* when it is positive and above the downmove, -DM likewise
PlusDM(d) ==
    [i \in 1..Len(d) |->
       IF i > 1 /\ d[i].high - d[i - 1].high > d[i - 1].low - d[i].low
                /\ d[i].high - d[i - 1].high > 0
         THEN QI(d[i].high - d[i - 1].high) ELSE QZero]

MinusDM(d) ==
    [i \in 1..Len(d) |->
       IF i > 1 /\ d[i - 1].low - d[i].low > d[i].high - d[i - 1].high
                /\ d[i - 1].low - d[i].low > 0
         THEN QI(d[i - 1].low - d[i].low) ELSE QZero]

RECURSIVE Smoothed(_, _, _, _)
\* the smoothed moving average (the movav of ADX) of a line that starts at
\* bar `first`, at bar n >= first + period - 1
Smoothed(xs, first, period, n) ==
    IF n <= first + period - 1 THEN SMMANext(QZero, xs, first, period, n)
    ELSE SMMANext(Smoothed(xs, first, period, n - 1), xs, first, period, n)

\* DIplus = 100 * plusDMav / atr, DIminus = 100 * minusDMav / atr
DIPlus(d, period, n) ==
    QDiv(QMul(QI(100), Smoothed(PlusDM(d), 2, period, n)), ATR(d, period, n))

DIMinus(d, period, n) ==
    QDiv(QMul(QI(100), Smoothed(MinusDM(d), 2, period, n)), ATR(d, period, n))

\* dx = 100 * abs(DIplus - DIminus) / (DIplus + DIminus)
DX(d, period, n) ==
    QDiv(QMul(QI(100), QAbs(QSub(DIPlus(d, period, n), DIMinus(d, period, n)))),
         QAdd(DIPlus(d, period, n), DIMinus(d, period, n)))

DXLine(d, period) ==
    [i \in 1..Len(d) |-> IF i >= period + 1 THEN DX(d, period, i) ELSE QZero]

\* bt.indicators.ADX(self.data, period) at bar n >= 2 * period
ADX(d, period, n) == Smoothed(DXLine(d, period), period + 1, period, n)

\* the divisions of ADX are plain divisions: a true range of zero over the
\* whole seed window, or no directional movement so far, raises
\* ZeroDivisionError in the indicator pass
ADXRaises(d, period) ==
    /\ Len(d) >= period + 1
    /\ \/ ATR(d, period, Len(d)) = QZero
       \/ QAdd(Smoothed(PlusDM(d), 2, period, Len(d)),
               Smoothed(MinusDM(d), 2, period, Len(d))) = QZero

\* trend_up = self.sma_fast[0] > self.sma_slow[0]
TrendUp(st, d) ==
    QLt(SMA(CloseLine(d), st.params.slow_period, Len(d)),
        SMA(CloseLine(d), st.params.fast_period, Len(d)))

\* the exit rules with the trailing stop tested first
TrendRuleTrailingFirst(st, d) ==
    IF /\ st.highest_price # NoPrice /\ st.highest_price # QZero
       /\ QLt(QI(d[Len(d)].close),
              QMul(st.highest_price, QSub(QI(1), st.params.trailing_stop)))
      THEN "trailing"
    ELSE IF ~TrendUp(st, d) THEN "reversal"
    ELSE IF QLt(ADX(d, st.params.adx_period, Len(d)),
                QMul(QI(st.params.adx_threshold), Q(4, 5)))
      THEN "weak"
    ELSE "none"

\* TrendFollowingStrategy.next with a position, once the highest price is
\* brought up to date: the exit rule that acts, "none" when none does
TrendRule(st, d) ==
    IF ~TrendUp(st, d) THEN "reversal"
    ELSE IF /\ st.highest_price # NoPrice /\ st.highest_price # QZero
            /\ QLt(QI(d[Len(d)].close),
                   QMul(st.highest_price, QSub(QI(1), st.params.trailing_stop)))
      THEN "trailing"
    ELSE IF QLt(ADX(d, st.params.adx_period, Len(d)),
                QMul(QI(st.params.adx_threshold), Q(4, 5)))
      THEN "weak"
    ELSE "none"

\* self.log(...) and self.order = self.sell() of an exit rule
TrendExit(st, d, rule) ==
    IF rule = "none" THEN st
    ELSE [Sell(st, d) EXCEPT !.stops = Append(@, [bar |-> Len(d), rule |-> rule])]

\* TrendFollowingStrategy.next after the equity point
TrendFollowingNext(st, d) ==
    LET n == Len(d)
        P == st.params
        current_price == QI(d[n].close)
        trend_strong == QLt(QI(P.adx_threshold), ADX(d, P.adx_period, n))
        held == [st EXCEPT !.highest_price =
                    IF @ = NoPrice THEN current_price ELSE QMax(@, current_price)]
    IN  IF st.order # NoOrder THEN st
        ELSE IF n < P.slow_period THEN st
        ELSE IF ~HasPosition(st)
          THEN (IF /\ TrendUp(st, d) /\ trend_strong
                   /\ QLt(SMA(CloseLine(d), P.fast_period, n), current_price)
                  THEN Buy(st, d) ELSE st)
        ELSE TrendExit(held, d, TrendRule(held, d))

\* the minimum period backtrader derives from the indicators built in
\* __init__: prenext() runs, and next() does not, while len(data) is below it
MinPeriod(strategy, P) ==
    CASE strategy = "macross" -> Max2(P.fast_period, P.slow_period) + 1
      [] strategy = "macd" -> Max2(P.fast_period, P.slow_period) + P.signal_period
      [] strategy = "rsi" -> P.period + 1
      [] strategy = "bollinger" -> P.period
      [] strategy = "triple_ma" -> Max2(Max2(P.fast_period, P.mid_period), P.slow_period)
      [] strategy = "mean_reversion" -> P.period
      [] strategy = "pyramid_add" -> P.ma_period
      [] strategy = "swing" -> Max2(Max2(10, P.trend_period), P.swing_period)
      \* SMA(ATR(lookback), lookback): the average of the true range needs
      \* lookback + 1 bars, its own average lookback - 1 more
      [] strategy = "vcp" -> 2 * P.lookback
      \* no indicator
      [] strategy = "candlestick" -> 1
      \* SMA(fast), SMA(slow) and ADX(adx_period), a smoothed average of a
      \* smoothed average
      [] strategy = "trend_following" ->
           Max2(Max2(P.fast_period, P.slow_period), 2 * P.adx_period)

\* the indicators of the strategy at the new bar
AdvanceLines(st, d) ==
    CASE st.strategy = "macd" ->
           [st EXCEPT !.lines = MACDAdvance(@, CloseLine(d), st.params, Len(d))]
      [] st.strategy = "rsi" ->
           [st EXCEPT !.lines = RSIAdvance(@, d, st.params, Len(d))]
      [] OTHER -> st

\* the indicators are computed over the whole series before the bars are
\* replayed (cerebro.run, runonce); one that divides by zero ends the run
\* with ZeroDivisionError: bt.indicators.RSI (safediv = False) when no close
\* fell in the seed window
IndicatorRaises(st, d) ==
    \/ /\ st.strategy = "rsi"
       /\ Len(d) >= st.params.period + 1
       /\ st.lines.madown = QZero
    \/ /\ st.strategy = "trend_following"
       /\ ADXRaises(d, st.params.adx_period)

\* STRATEGY_REGISTRY[strategy_name].next
StrategyNext(st, d) ==
    LET s1 == RecordEquity(st, d)
    IN  CASE st.strategy = "macross" -> MACrossNext(s1, d)
          [] st.strategy = "macd" -> MACDNext(s1, d)
          [] st.strategy = "rsi" -> RSINext(s1, d)
          [] st.strategy = "bollinger" -> BollingerNext(s1, d)
          [] st.strategy = "triple_ma" -> TripleMANext(s1, d)
          [] st.strategy = "mean_reversion" -> MeanReversionNext(s1, d)
          [] st.strategy = "pyramid_add" -> PyramidAddNext(s1, d)
          [] st.strategy = "swing" -> SwingNext(s1, d)
          [] st.strategy = "candlestick" -> CandlestickNext(s1, d)
          [] st.strategy = "vcp" -> VCPNext(s1, d)
          [] st.strategy = "trend_following" -> TrendFollowingNext(s1, d)

\* Strategy._notify: the notifications the broker queued are delivered
Notified(st, d) == NotifyAll([st EXCEPT !.notifs = << >>], st.notifs, d)

\* a Strategy._oncepost whose warm-up takes the missing value for a signal
OncePostBuyingInWarmUp(st, d) ==
    IF Len(d) < MinPeriod(st.strategy, st.params)
      THEN (IF st.order = NoOrder /\ ~HasPosition(st) THEN Buy(st, d) ELSE st)
      ELSE StrategyNext(st, d)

\* Strategy._oncepost: prenext() (nothing) until every indicator has a
\* value, next() from then on
OncePost(st, d) ==
    IF Len(d) < MinPeriod(st.strategy, st.params) THEN st ELSE StrategyNext(st, d)

\* one iteration of cerebro.run for a run whose indicators have their
\* values at the bar: the broker settles the orders of the previous bar at
\* this bar's open, the strategy is notified, then prenext() or next() runs
ReplayBar(st, d) ==
    IF IndicatorRaises(st, d) THEN [st EXCEPT !.status = "error"]
    ELSE OncePost(Notified(BrokerNext([st EXCEPT !.submitted = << >>],
                                      st.submitted, d[Len(d)]), d), d)

\* cerebro.run for one run and one more bar
StepRun(st, d) ==
    IF st.status # "running" THEN st ELSE ReplayBar(AdvanceLines(st, d), d)

----------------------------------------------------------------------------
(* run_backtest (apps/backtest/engine.py): the result of a finished run.   *)

\* the fallback of run_backtest when the strategy recorded no equity point:
\* a straight line from initial_cash to the final value, one point per bar
InterpolatedCurve(st, final_value, total) ==
    [i \in 1..total |->
        [bar |-> i,
         value |-> QAdd(st.startingcash,
                        QMul(QSub(final_value, st.startingcash), Q(i, total)))]]

\* datetime.date(0) of bar n in next(), and idx.strftime('%Y-%m-%d') in the
\* fallback: the calendar day of the bar, whatever its time of day; a daily
\* bar, one per day, is dated by its position
DayOf(d, n) == IF "date" \in DOMAIN d[n] THEN d[n].date ELSE n

\* the 'date' entry of every equity point
Dated(curve, d) ==
    [i \in DOMAIN curve |->
        [bar |-> curve[i].bar, value |-> curve[i].value,
         date |-> DayOf(d, curve[i].bar)]]

\* broker.getvalue() when bar k was over: the money of the start until
\* next() ran, the equity point of the bar from then on
ValueAtBar(st, k) ==
    IF \E i \in DOMAIN st.equity_curve : st.equity_curve[i].bar = k
      THEN st.equity_curve[CHOOSE i \in DOMAIN st.equity_curve :
                              st.equity_curve[i].bar = k].value
      ELSE st.startingcash

\* the last bar of the first calendar year of the series; bars carry their
\* year when the series goes over a turn of the year
YearEnd(d) == CHOOSE k \in DOMAIN d :
                 /\ d[k].year = d[1].year
                 /\ \A j \in DOMAIN d : d[j].year = d[1].year => j <= k

\* (average of the yearly returns - riskfreerate) / their deviation, over
\* the two years r1 and r2; None when the division fails
SharpeOfYears(r1, r2) ==
    IF r1 = r2 THEN None
    ELSE Some(QDiv(QSub(QDiv(QAdd(r1, r2), QI(2)), Q(1, 100)),
                   QDiv(QAbs(QSub(r1, r2)), QI(2))))

\* bt.analyzers.SharpeRatio (timeframe Years, riskfreerate 0.01, population
\* deviation) over the returns of bt.analyzers.TimeReturn: over bars of one
\* calendar year there is one return, its deviation is 0 and the ratio has
\* no value
SharpeRatio(st, d, final_value) ==
    IF "year" \notin DOMAIN d[1] \/ d[Len(d)].year = d[1].year THEN None
    ELSE SharpeOfYears(
           QSub(QDiv(ValueAtBar(st, YearEnd(d)), st.startingcash), QI(1)),
           QSub(QDiv(final_value, ValueAtBar(st, YearEnd(d))), QI(1)))

\* the dict run_backtest returns
RunResult(st, d) ==
    LET final_value == GetValue(st, d[Len(d)])
    IN  [ final_value  |-> final_value,
          total_return |-> QMul(QDiv(QSub(final_value, st.startingcash),
                                     st.startingcash), QI(100)),
          data_points  |-> Len(d),
          equity_curve |-> Dated(IF st.equity_curve # << >> THEN st.equity_curve
                                 ELSE InterpolatedCurve(st, final_value, Len(d)),
                                 d),
          trade_points |-> st.trade_points,
          total_trades |-> st.total_trades,
          \* the Returns analyzer: rtot = log(final / initial) and rnorm grow
          \* with the final value and are 0 when it is the initial cash; the
          \* percentage return stands for both
          total_return_pct |->
              Some(QMul(QDiv(QSub(final_value, st.startingcash),
                             st.startingcash), QI(100))),
          annual_return_pct |->
              Some(QMul(QDiv(QSub(final_value, st.startingcash),
                             st.startingcash), QI(100))),
          sharpe_ratio |-> SharpeRatio(st, d, final_value) ]

----------------------------------------------------------------------------
(* The stored candles and what a run loads of them.  The bar stored at     *)
(* position i of `data` carries date i; start_date is the first date.      *)

\* Candle.objects.filter(date__gte=start_date, date__lte=effective_end_date)
Loaded(st, d) ==
    SubSeq(d, 1, IF Len(d) <= EffectiveEndDate(st) THEN Len(d) ELSE EffectiveEndDate(st))

MaxBars == 6
PairBars == 4
FlatBars == 100
RampBars == 40
RampBase == 100
Volume == 1000
CallBars == 2
MinuteBars == 2
OptBars == 4
MaxStrategies == 3
SwingLead == 9
SwingBars == 12
EtfBars == 4
PyramidLead == 2
PyramidBars == 6
CandleBars == 3
VcpLead == 3
VcpBars == 6
TrendLead == 3
TrendBars == 7
YearBars == 3

\* a bar whose high and low are the extremes of its open and close
OCBar(o, c) == [open |-> o, high |-> Max2(o, c), low |-> IF o < c THEN o ELSE c,
                close |-> c, volume |-> Volume]

WalkPrices == {19, 20}
PyramidPrices == {19, 20, 21}

\* a bar with shadows
Bar(o, h, l, c) == [open |-> o, high |-> h, low |-> l, close |-> c, volume |-> Volume]

\* the bars of the candlestick series: bodies falling and rising by one
\* step and by three, a rising body over a long lower shadow, and bodies
\* of no height under an upper and over a lower shadow
\* a bar rising by one from its open c, within a range of three
RisingBar(c) == Bar(c, c + 2, c - 1, c + 1)

\* the bars a trend series continues with after the close c: a bar rising
\* by three, a bar of no range, a bar with a long lower shadow that closes
\* where it opened, and a bar falling by four
TrendShapes(c) ==
    { Bar(c, c + 4, c - 1, c + 3), Bar(c, c, c, c), Bar(c, c, c - 6, c),
      Bar(c, c, c - 5, c - 4) }

\* a bar of the VCP series with a wide range
WideBar == Bar(100, 128, 72, 100)

\* the bars of the VCP series after VcpLead wide bars: a wide bar, a bar of
\* no range on half the volume and on the full volume, bars falling by 5%
\* and by 10%, and a bar rising by 1% on half the volume
VcpShapes ==
    { WideBar, [Bar(100, 100, 100, 100) EXCEPT !.volume = Volume \div 2],
      Bar(100, 100, 100, 100), Bar(100, 100, 95, 95), Bar(100, 100, 90, 90),
      [Bar(100, 101, 100, 101) EXCEPT !.volume = Volume \div 2] }

CandleShapes ==
    { Bar(21, 21, 20, 20), Bar(20, 21, 20, 21), Bar(19, 22, 19, 22),
      Bar(22, 22, 19, 19), Bar(20, 21, 17, 21), Bar(20, 21, 20, 20),
      Bar(20, 20, 19, 20) }

\* open and close of the bars of a store that run_backtest calls are made on
CallPrices == {<<19, 20>>, <<20, 19>>}
FlatPrices == {19, 20}

\* the number of bars a series of each kind grows to
SeriesBars(f) ==
    CASE f = "walk" -> MaxBars
      [] f = "pair" -> PairBars
      [] f = "flat" -> FlatBars
      [] f = "ramp" -> RampBars
      [] f = "call" -> CallBars
      [] f = "opt" -> OptBars
      [] f = "swing" -> SwingBars
      [] f = "etf" -> EtfBars
      [] f = "pyramid" -> PyramidBars
      [] f = "candle" -> CandleBars
      [] f = "vcp" -> VcpBars
      [] f = "trend" -> TrendBars

\* the bars the stored series may continue with: any walk over the price
\* set; one constant bar repeated; close[i] = RampBase + i (i counted from 0)
\* with every open at the same distance below its close
NextBars(f, d) ==
    CASE f \in {"walk", "pair"} ->
           {OCBar(o, c) : o \in WalkPrices, c \in WalkPrices}
      [] f = "swing" ->
           IF Len(d) < SwingLead THEN {OCBar(20, 20)}
           ELSE {OCBar(o, c) : o \in WalkPrices, c \in WalkPrices}
      [] f \in {"call", "opt"} -> {OCBar(oc[1], oc[2]) : oc \in CallPrices}
      [] f = "pyramid" ->
           IF Len(d) < PyramidLead THEN {OCBar(20, 20)}
           ELSE {OCBar(o, c) : o \in PyramidPrices, c \in PyramidPrices}
      [] f = "candle" -> CandleShapes
      [] f = "vcp" ->
           IF Len(d) < VcpLead THEN {WideBar} ELSE VcpShapes
      [] f = "trend" ->
           IF Len(d) < TrendLead THEN {RisingBar(30 + 2 * Len(d))}
           ELSE TrendShapes(d[Len(d)].close)
      \* a walk whose first YearBars bars are the last of a calendar year
      [] f = "etf" ->
           {OCBar(o, c) @@ [year |-> IF Len(d) < YearBars THEN 1 ELSE 2] :
              o \in WalkPrices, c \in WalkPrices}
      [] f = "flat" ->
           IF d = << >> THEN {OCBar(c, c) : c \in FlatPrices} ELSE {d[1]}
      [] f = "ramp" ->
           IF d = << >> THEN {OCBar(RampBase - g, RampBase) : g \in {0, 1}}
           ELSE {OCBar(RampBase + Len(d) - (d[1].close - d[1].open),
                       RampBase + Len(d))}

\* a series may be submitted to run_backtest once it has this many bars
MinBars(f) ==
    CASE f = "flat" -> FlatBars
      [] f = "swing" -> SwingBars
      [] OTHER -> 1

----------------------------------------------------------------------------
(* The parameter grids of the optimizer (apps/backtest/optimizer.py).  A   *)
(* grid is the sequence of its parameters in the order of the dict, each   *)
(* with its list of candidate values; a combination is a function from     *)
(* parameter names to values.                                              *)

Param(name, values) == [name |-> name, values |-> values]

STRATEGY_PARAM_GRIDS ==
    [ macross |-> << Param("fast_period", <<5, 10, 15, 20>>),
                     Param("slow_period", <<20, 30, 40, 60>>) >>,
      macd |-> << Param("fast_period", <<10, 12, 15>>),
                  Param("slow_period", <<20, 26, 30>>),
                  Param("signal_period", <<7, 9, 12>>) >>,
      rsi |-> << Param("period", <<10, 14, 20>>),
                 Param("oversold", <<25, 30, 35>>),
                 Param("overbought", <<65, 70, 75>>) >>,
      bollinger |-> << Param("period", <<15, 20, 25>>),
                       Param("devfactor", <<Q(3, 2), QI(2), Q(5, 2)>>) >>,
      triple_ma |-> << Param("fast_period", <<3, 5, 8>>),
                       Param("mid_period", <<8, 10, 15>>),
                       Param("slow_period", <<15, 20, 30>>) >>,
      mean_reversion |-> << Param("period", <<15, 20, 25>>),
                            Param("threshold", <<Q(15, 1000), Q(2, 100),
                                                 Q(25, 1000), Q(3, 100)>>) >>,
      vcp |-> << Param("lookback", <<15, 20, 25>>),
                 Param("contraction_ratio", <<Q(6, 10), Q(7, 10), Q(8, 10)>>),
                 Param("volume_ratio", <<Q(7, 10), Q(8, 10), Q(9, 10)>>),
                 Param("breakout_threshold", <<Q(101, 100), Q(102, 100),
                                               Q(103, 100)>>) >>,
      candlestick |-> << Param("pattern_type", <<"all", "hammer", "engulfing">>),
                         Param("confirmation_period", <<1, 2, 3>>),
                         Param("min_body_ratio", <<Q(2, 10), Q(3, 10), Q(4, 10)>>),
                         Param("min_shadow_ratio", <<Q(3, 2), QI(2), Q(5, 2)>>) >>,
      swing |-> << Param("trend_period", <<15, 20, 25>>),
                   Param("swing_period", <<8, 10, 12>>),
                   Param("pullback_ratio", <<Q(3, 100), Q(5, 100), Q(7, 100)>>),
                   Param("profit_target", <<Q(8, 100), Q(10, 100), Q(12, 100)>>),
                   Param("stop_loss", <<Q(3, 100), Q(5, 100), Q(7, 100)>>) >>,
      trend_following |-> << Param("fast_period", <<8, 10, 12>>),
                             Param("slow_period", <<25, 30, 35>>),
                             Param("adx_period", <<12, 14, 16>>),
                             Param("adx_threshold", <<20, 25, 30>>),
                             Param("trailing_stop", <<Q(2, 100), Q(3, 100),
                                                      Q(4, 100)>>) >>,
      pyramid_add |-> << Param("initial_position_size", <<Q(3, 100), Q(5, 100),
                                                          Q(7, 100)>>),
                         Param("stop_loss_pct", <<Q(15, 1000), Q(2, 100),
                                                  Q(25, 1000)>>),
                         Param("add_position_threshold", <<Q(15, 1000), Q(2, 100),
                                                           Q(25, 1000)>>),
                         Param("ma_period", <<15, 20, 25>>),
                         Param("high_open_threshold", <<Q(5, 1000), Q(1, 100),
                                                        Q(15, 1000)>>) >> ]

\* the dict {}
NoParams == << >>

\* a product that takes the candidate lists from the last parameter to the
\* first: the first parameter varies fastest
RECURSIVE ProductFirstFastest(_)
ProductFirstFastest(grid) ==
    IF grid = << >> THEN << NoParams >>
    ELSE LET rest == ProductFirstFastest(Tail(grid))
             key  == Head(grid).name
             vals == Head(grid).values
         IN  [n \in 1 .. Len(vals) * Len(rest) |->
                (key :> vals[((n - 1) % Len(vals)) + 1])
                   @@ rest[((n - 1) \div Len(vals)) + 1]]

\* dict(zip(keys, combo)) for every combo of itertools.product over the
\* candidate lists, which advances the last list fastest
RECURSIVE Product(_)
Product(grid) ==
    IF grid = << >> THEN << NoParams >>
    ELSE LET rest == Product(Tail(grid))
             key  == Head(grid).name
             vals == Head(grid).values
         IN  [n \in 1 .. Len(vals) * Len(rest) |->
                (key :> vals[((n - 1) \div Len(rest)) + 1])
                   @@ rest[((n - 1) % Len(rest)) + 1]]

\* generate_param_combinations(strategy_name) over the table
GenerateParamCombinations(table, strategy_name) ==
    IF strategy_name \notin DOMAIN table THEN << NoParams >>
    ELSE Product(table[strategy_name])

\* find_best_strategy has not been called
NoBest == [metric |-> "none", outcome |-> [kind |-> "none", value |-> None]]

\* no call of the optimizer or of run_backtest is under way
NoCall == [op |-> "none"]

\* no ExecutionGateway was built
NoGateway == [mode |-> "none"]

MaxParams == 3
MaxCandidates == 2

\* parameter names for the grids explored besides the table of the code
GridKeys ==
    <<"fast_period", "slow_period", "signal_period", "period", "oversold",
      "overbought">>

\* candidate lists: like those of the table without a repeated value, in
\* ascending and in descending order
CandidateLists ==
    UNION { {[i \in 1 .. n |-> i], [i \in 1 .. n |-> n + 1 - i]} :
            n \in 1 .. MaxCandidates }

SmallGrids ==
    UNION { {[i \in 1 .. n |-> Param(GridKeys[i], l[i])] :
                l \in [1 .. n -> CandidateLists]} :
            n \in 1 .. MaxParams }

\* the table of the code, or a table with one small grid
InitGrid ==
    /\ data = << >>
    /\ feed = "grid"
    /\ runs = << >>
    /\ results = << >>
    /\ best = NoBest
    /\ minutes = << >>
    /\ grids \in {STRATEGY_PARAM_GRIDS} \cup {[macd |-> g] : g \in SmallGrids}
    /\ opt = NoCall
    /\ gateway = NoGateway

\* strategy names that are not in the table
OtherNames == {"unknown"}

\* a call generate_param_combinations(strategy_name)
Generate ==
    /\ opt.op = "none"
    /\ \E name \in DOMAIN grids \cup OtherNames :
          opt' = [op |-> "generate_param_combinations", strategy_name |-> name,
                  combinations |-> GenerateParamCombinations(grids, name)]
    /\ UNCHANGED <<data, runs, feed, results, best, minutes, grids, gateway>>

GridSpec == InitGrid /\ [][Generate]_vars

----------------------------------------------------------------------------
(* run_backtest calls over the stored series.                              *)

\* strategy_name and **strategy_params of the runs explored
Configs ==
    { [strategy |-> "macross", params |-> [fast_period |-> 1, slow_period |-> 2]],
      [strategy |-> "macd", params |-> [fast_period |-> 1, slow_period |-> 2,
                                        signal_period |-> 2]],
      [strategy |-> "rsi", params |-> [period |-> 2, oversold |-> 30, overbought |-> 70]],
      [strategy |-> "bollinger", params |-> [period |-> 3, devfactor |-> QI(1)]],
      [strategy |-> "triple_ma", params |-> [fast_period |-> 1, mid_period |-> 2,
                                             slow_period |-> 3]],
      [strategy |-> "mean_reversion", params |-> [period |-> 2, threshold |-> Q(1, 50)]],
      [strategy |-> "pyramid_add",
       params |-> [initial_position_size |-> Q(1, 20), stop_loss_pct |-> Q(1, 50),
                   add_position_threshold |-> Q(1, 50), ma_period |-> 2,
                   high_open_threshold |-> Q(1, 100)]] }

\* the params tuples of the strategy classes
DefaultConfigs ==
    { [strategy |-> "macross", params |-> [fast_period |-> 5, slow_period |-> 20]],
      [strategy |-> "macd", params |-> [fast_period |-> 12, slow_period |-> 26,
                                        signal_period |-> 9]],
      [strategy |-> "rsi", params |-> [period |-> 14, oversold |-> 30, overbought |-> 70]],
      [strategy |-> "bollinger", params |-> [period |-> 20, devfactor |-> QI(2)]],
      [strategy |-> "triple_ma", params |-> [fast_period |-> 5, mid_period |-> 10,
                                             slow_period |-> 20]],
      [strategy |-> "mean_reversion", params |-> [period |-> 20, threshold |-> Q(1, 50)]],
      [strategy |-> "pyramid_add",
       params |-> [initial_position_size |-> Q(1, 20), stop_loss_pct |-> Q(1, 50),
                   add_position_threshold |-> Q(1, 50), ma_period |-> 20,
                   high_open_threshold |-> Q(1, 100)]] }

\* the params tuples of the strategy classes that are run on their
\* defaults only
OtherDefaults ==
    { [strategy |-> "vcp",
       params |-> [lookback |-> 20, contraction_ratio |-> Q(7, 10),
                   volume_ratio |-> Q(4, 5), breakout_threshold |-> Q(51, 50)]],
      [strategy |-> "candlestick",
       params |-> [pattern_type |-> "all", confirmation_period |-> 2,
                   min_body_ratio |-> Q(3, 10), min_shadow_ratio |-> QI(2)]],
      [strategy |-> "swing",
       params |-> [trend_period |-> 20, swing_period |-> 10,
                   pullback_ratio |-> Q(1, 20), profit_target |-> Q(1, 10),
                   stop_loss |-> Q(1, 20)]],
      [strategy |-> "trend_following",
       params |-> [fast_period |-> 10, slow_period |-> 30, adx_period |-> 14,
                   adx_threshold |-> 25, trailing_stop |-> Q(3, 100)]] }

InitialCash == 100000

Commissions == {QZero, Q(1, 20)}

\* one run over a store of MaxBars historical bars
Init ==
    /\ data = << >>
    /\ feed = "walk"
    /\ results = << >>
    /\ best = NoBest
    /\ minutes = << >>
    /\ grids = STRATEGY_PARAM_GRIDS
    /\ opt = NoCall
    /\ gateway = NoGateway
    /\ \E c \in Configs, k \in Commissions :
          runs = [r \in {1} |->
                    NewRun(c.strategy, c.params, InitialCash, k, MaxBars, MaxBars)]

Running == \A r \in DOMAIN runs : runs[r].status = "running"

\* cerebro.run replays the next stored bar to every run whose date range
\* holds it
NextBar ==
    /\ DOMAIN runs # {}
    /\ Running
    /\ Len(data) < SeriesBars(feed)
    /\ \E b \in NextBars(feed, data) :
          /\ data' = Append(data, b)
          /\ runs' = [r \in DOMAIN runs |->
                        IF Len(data') <= EffectiveEndDate(runs[r])
                          THEN StepRun(runs[r], data')
                          ELSE runs[r]]
    /\ UNCHANGED <<feed, results, best, minutes, grids, opt, gateway>>

\* the ways a run over fewer bars than its indicators need can end:
\* backtrader's indicator pass over the preloaded bars may fail on them
ShortSeriesOutcomes == {"done", "error"}

\* the series is exhausted: cerebro.run returns and run_backtest builds its
\* result from the strategy and the broker
Finish ==
    /\ DOMAIN runs # {}
    /\ Running
    /\ Len(data) >= MinBars(feed)
    /\ \E out \in ShortSeriesOutcomes :
          runs' = [r \in DOMAIN runs |->
                     [runs[r] EXCEPT !.status =
                        IF Len(Loaded(runs[r], data))
                             < MinPeriod(runs[r].strategy, runs[r].params)
                          THEN out ELSE "done"]]
    /\ UNCHANGED <<data, feed, results, best, minutes, grids, opt, gateway>>

Next == NextBar \/ Finish

Spec == Init /\ [][Next]_vars

\* the strategies sized by the percent sizer that can trade within PairBars
PairConfigs == {c \in Configs : c.strategy \in {"macross", "mean_reversion", "rsi", "triple_ma"}}

\* the days on which a run may be made
Days == {PairBars - 1, PairBars}

\* two run_backtest calls with the same symbol, strategy, parameters, date
\* range and initial cash over the same store, each with its own commission
\* and made on its own day
InitPair ==
    /\ data = << >>
    /\ feed = "pair"
    /\ results = << >>
    /\ best = NoBest
    /\ minutes = << >>
    /\ grids = STRATEGY_PARAM_GRIDS
    /\ opt = NoCall
    /\ gateway = NoGateway
    /\ \E c \in PairConfigs, e \in Days :
       \E k \in [{1, 2} -> Commissions], t \in [{1, 2} -> Days] :
          runs = [r \in {1, 2} |->
                    NewRun(c.strategy, c.params, InitialCash, k[r], e, t[r])]

PairSpec == InitPair /\ [][Next]_vars

\* every strategy with its default parameters over a constant series
InitFlat ==
    /\ data = << >>
    /\ feed = "flat"
    /\ results = << >>
    /\ best = NoBest
    /\ minutes = << >>
    /\ grids = STRATEGY_PARAM_GRIDS
    /\ opt = NoCall
    /\ gateway = NoGateway
    /\ \E c \in DefaultConfigs, k \in Commissions :
          runs = [r \in {1} |->
                    NewRun(c.strategy, c.params, InitialCash, k, FlatBars, FlatBars)]

FlatSpec == InitFlat /\ [][Next]_vars

\* MA Crossover with fast = 5, slow = 20 over close[i] = RampBase + i
InitRamp ==
    /\ data = << >>
    /\ feed = "ramp"
    /\ results = << >>
    /\ best = NoBest
    /\ minutes = << >>
    /\ grids = STRATEGY_PARAM_GRIDS
    /\ opt = NoCall
    /\ gateway = NoGateway
    /\ \E k \in Commissions :
          runs = [r \in {1} |->
                    NewRun("macross", [fast_period |-> 5, slow_period |-> 20],
                           InitialCash, k, RampBars, RampBars)]

RampSpec == InitRamp /\ [][Next]_vars

\* **strategy_params of the Swing Trading runs explored
SwingParams ==
    {[trend_period |-> 2, swing_period |-> sp, pullback_ratio |-> Q(1, 20),
      profit_target |-> Q(1, 10), stop_loss |-> Q(1, 20)] : sp \in {1, 2}}

\* two Swing Trading runs with the same symbol, parameters, start date,
\* initial cash and commission over the same store, each with its own end
\* date: SwingLead constant bars, then a walk
InitSwing ==
    /\ data = << >>
    /\ feed = "swing"
    /\ results = << >>
    /\ best = NoBest
    /\ minutes = << >>
    /\ grids = STRATEGY_PARAM_GRIDS
    /\ opt = NoCall
    /\ gateway = NoGateway
    /\ \E P \in SwingParams, k \in Commissions :
       \E e \in [{1, 2} -> {SwingBars - 1, SwingBars}] :
          runs = [r \in {1, 2} |->
                    NewRun("swing", P, InitialCash, k, e[r], SwingBars)]

SwingSpec == InitSwing /\ [][Next]_vars

\* **strategy_params of the Pyramid Add runs explored
PyramidParams ==
    {[initial_position_size |-> Q(1, 20), stop_loss_pct |-> sl,
      add_position_threshold |-> Q(1, 50), ma_period |-> 2,
      high_open_threshold |-> Q(1, 100)] : sl \in {Q(1, 50), Q(1, 10)}}

\* one Pyramid Add run over PyramidLead constant bars, then a walk over
\* three prices
InitPyramid ==
    /\ data = << >>
    /\ feed = "pyramid"
    /\ results = << >>
    /\ best = NoBest
    /\ minutes = << >>
    /\ grids = STRATEGY_PARAM_GRIDS
    /\ opt = NoCall
    /\ gateway = NoGateway
    /\ \E P \in PyramidParams, k \in Commissions :
          runs = [r \in {1} |->
                    NewRun("pyramid_add", P, InitialCash, k, PyramidBars, PyramidBars)]

PyramidSpec == InitPyramid /\ [][Next]_vars

\* initial_cash of which 5% buys one share at 20, and none or one at 21
ThinCash == {400, 420}

\* one Pyramid Add run on little cash
InitThin ==
    /\ data = << >>
    /\ feed = "pyramid"
    /\ results = << >>
    /\ best = NoBest
    /\ minutes = << >>
    /\ grids = STRATEGY_PARAM_GRIDS
    /\ opt = NoCall
    /\ gateway = NoGateway
    /\ \E P \in PyramidParams, k \in Commissions, c \in ThinCash :
          runs = [r \in {1} |->
                    NewRun("pyramid_add", P, c, k, PyramidBars, PyramidBars)]

ThinSpec == InitThin /\ [][Next]_vars

\* **strategy_params of the Candlestick Pattern runs explored
CandleParams ==
    {[pattern_type |-> t, confirmation_period |-> cp,
      min_body_ratio |-> Q(3, 10), min_shadow_ratio |-> QI(2)] :
        t \in {"hammer", "engulfing", "doji", "all"}, cp \in {1, 2}}

\* one Candlestick Pattern run over a series of bars with shadows
InitCandle ==
    /\ data = << >>
    /\ feed = "candle"
    /\ results = << >>
    /\ best = NoBest
    /\ minutes = << >>
    /\ grids = STRATEGY_PARAM_GRIDS
    /\ opt = NoCall
    /\ gateway = NoGateway
    /\ \E P \in CandleParams, x \in DelayedLines :
          runs = [r \in {1} |->
                    [NewRun("candlestick", P, InitialCash, QZero,
                            CandleBars, CandleBars) EXCEPT !.delayed = x]]

CandleSpec == InitCandle /\ [][Next]_vars

\* **strategy_params of the VCP runs explored: the default thresholds with
\* a lookback of two bars, and a breakout threshold below 1
VcpParams ==
    {[lookback |-> 2, contraction_ratio |-> Q(7, 10), volume_ratio |-> Q(4, 5),
      breakout_threshold |-> t] : t \in {Q(7, 10), QI(1), Q(51, 50)}}

\* one VCP run
InitVcp ==
    /\ data = << >>
    /\ feed = "vcp"
    /\ results = << >>
    /\ best = NoBest
    /\ minutes = << >>
    /\ grids = STRATEGY_PARAM_GRIDS
    /\ opt = NoCall
    /\ gateway = NoGateway
    /\ \E P \in VcpParams, x \in DelayedLines :
          runs = [r \in {1} |->
                    [NewRun("vcp", P, InitialCash, QZero, VcpBars, VcpBars)
                       EXCEPT !.delayed = x]]

VcpSpec == InitVcp /\ [][Next]_vars

\* **strategy_params of the Trend Following runs explored
TrendParams ==
    {[fast_period |-> 2, slow_period |-> 3, adx_period |-> 2,
      adx_threshold |-> t, trailing_stop |-> Q(1, 10)] : t \in {25, 60}}

\* one Trend Following run over a series that starts with TrendLead rising
\* bars
InitTrend ==
    /\ data = << >>
    /\ feed = "trend"
    /\ results = << >>
    /\ best = NoBest
    /\ minutes = << >>
    /\ grids = STRATEGY_PARAM_GRIDS
    /\ opt = NoCall
    /\ gateway = NoGateway
    /\ \E P \in TrendParams, k \in Commissions :
          runs = [r \in {1} |->
                    NewRun("trend_following", P, InitialCash, k, TrendBars, TrendBars)]

TrendSpec == InitTrend /\ [][Next]_vars

\* one run of any of the strategies, over the series made for it
InitEvery ==
    \/ Init
    \/ InitSwing
    \/ InitPyramid
    \/ InitCandle
    \/ InitVcp
    \/ InitTrend

EverySpec == InitEvery /\ [][Next]_vars

----------------------------------------------------------------------------
(* A whole run_backtest call (apps/backtest/engine.py): the instrument,    *)
(* the candles of the range, Cerebro and its broker, the registry lookup,  *)
(* cerebro.run, the result.  Daily candle i of `data` carries date i; a    *)
(* minute candle carries its date and its interval.                        *)

Returned(v) == [kind |-> "returned", value |-> v]
Raised(e) == [kind |-> "raised", value |-> e]

\* the symbols with an Instrument row, and the symbols asked for
Instruments == {"DELISTED", "ETF"}
Symbols == {"ETF", "NOPE"}

\* list(STRATEGY_REGISTRY.keys()), and the keys as a set
RegistryKeys ==
    <<"macross", "macd", "rsi", "bollinger", "triple_ma", "mean_reversion", "vcp",
      "candlestick", "swing", "trend_following", "pyramid_add">>

STRATEGY_REGISTRY == {RegistryKeys[i] : i \in DOMAIN RegistryKeys}

\* a lookup of the name as it was written
LowerAsWritten(name) == name

\* strategy_name.lower(), over the names explored
Lower(name) ==
    CASE name = "MACross" -> "macross"
      [] name = "RSI" -> "rsi"
      [] OTHER -> name

\* the params tuple of the strategy class, overridden by the keyword
\* arguments of the call
StrategyParams(strategy, kwargs) ==
    LET defaults == (CHOOSE c \in DefaultConfigs \cup OtherDefaults :
                        c.strategy = strategy).params
    IN  [k \in DOMAIN kwargs \cup DOMAIN defaults |->
            IF k \in DOMAIN kwargs THEN kwargs[k] ELSE defaults[k]]

Intervals == {"1m", "5m"}

\* the ValueError raised, with the available date range when the message
\* carries it, and whether Cerebro and its broker existed when it was raised
Failure(error, range, cerebro) ==
    Raised([error |-> error, range |-> range, cerebro |-> cerebro])

\* Candle.objects.filter(date__gte=start_date, date__lte=effective_end_date)
DailyCandles(a, d, today) ==
    SubSeq(Loaded([end_date |-> a.end_date, today |-> today], d),
           a.start_date, Len(Loaded([end_date |-> a.end_date, today |-> today], d)))

\* CandleMinute.objects.filter(interval=interval, datetime__gte=...,
\* datetime__lte=...): a date object as end_date is combined with the last
\* time of the day, a string is parsed to the first
MinuteCandles(a, ms) ==
    SelectSeq(ms, LAMBDA b :
        /\ b.interval = a.interval
        /\ b.date >= a.start_date
        /\ IF a.dates = "date" THEN b.date <= a.end_date ELSE b.date < a.end_date)

\* the range the error message gives: the daily branch looks the whole
\* series of the instrument up, the minute branch does not
AvailableRange(a, d) ==
    IF a.data_type = "daily" /\ d # << >> THEN Some(<<1, Len(d)>>) ELSE None

RECURSIVE Replay(_, _, _)
\* cerebro.run over the loaded bars, from bar n on
Replay(st, bars, n) ==
    IF n > Len(bars) \/ st.status # "running" THEN st
    ELSE Replay(StepRun(st, SubSeq(bars, 1, n)), bars, n + 1)

\* the run when cerebro.run is over
Finished(st, bars, short) ==
    IF st.status # "running" THEN st
    ELSE [st EXCEPT !.status =
            IF Len(bars) < MinPeriod(st.strategy, st.params) THEN short
            \* detect_pattern compares delayed lines (self.data.open(-1), ...)
            \* built inside next(), from the second bar on: the comparison
            \* may raise
            ELSE IF st.strategy = "candlestick" /\ Len(bars) >= 2 THEN short
            ELSE "done"]

\* what run_backtest hands back once cerebro.run is over; Order.refbasis, a
\* counter of the class, goes on counting from one run to the next
Outcome(st, bars) ==
    IF st.status = "done"
      THEN [kind |-> "returned", value |-> RunResult(st, bars), refbasis |-> st.nextref]
      ELSE [kind |-> "raised",
            value |-> [error |-> "RunError", range |-> None, cerebro |-> TRUE],
            refbasis |-> st.nextref]

\* run_backtest from the creation of Cerebro on
Simulate(a, bars, today, refbasis, short) ==
    IF Lower(a.strategy_name) \notin STRATEGY_REGISTRY
      THEN Failure("UnknownStrategy", None, TRUE) @@ [refbasis |-> refbasis]
    ELSE Outcome(
           Finished(
             Replay([NewRun(Lower(a.strategy_name),
                            StrategyParams(Lower(a.strategy_name), a.strategy_params),
                            a.initial_cash, a.commission, a.end_date, today)
                       EXCEPT !.nextref = refbasis],
                    bars, 1),
             bars, short),
           bars)

\* run_backtest once the instrument is found
BacktestOver(a, bars, d, today, refbasis, short) ==
    IF bars = << >>
      THEN Failure("DataUnavailable", AvailableRange(a, d), FALSE)
             @@ [refbasis |-> refbasis]
    ELSE Simulate(a, bars, today, refbasis, short)

\* the end boundary of the candle query and whether the warning about a
\* future end date was printed: the daily branch takes min(end_date, today)
\* and warns, the minute branch queries up to end_date as given
Boundary(a, today) ==
    IF a.data_type = "daily"
      THEN [effective_end |-> Some(EffectiveEndDate([end_date |-> a.end_date,
                                                      today |-> today])),
            warned |-> a.end_date > today]
      ELSE [effective_end |-> Some(a.end_date), warned |-> FALSE]

\* no boundary is computed when the instrument lookup fails
NoBoundary == [effective_end |-> None, warned |-> FALSE]

\* run_backtest(symbol, strategy_name, start_date, end_date, data_type,
\* interval, initial_cash, commission, **strategy_params) on day `today`
RunBacktest(a, d, ms, today, refbasis, short) ==
    IF a.symbol \notin Instruments
      THEN Failure("InstrumentNotFound", None, FALSE) @@ [refbasis |-> refbasis]
             @@ NoBoundary
    ELSE BacktestOver(a,
                      IF a.data_type = "daily" THEN DailyCandles(a, d, today)
                      ELSE MinuteCandles(a, ms),
                      d, today, refbasis, short)
           @@ Boundary(a, today)

\* the strategy names asked for
CallNames == {"macross", "MACross", "mean_reversion", "unknown"}

\* keyword arguments short enough for the stores explored
ParamsFor(name) ==
    IF name = "mean_reversion" THEN [period |-> 1, threshold |-> Q(1, 50)]
    ELSE IF \E c \in Configs : c.strategy = Lower(name)
      THEN (CHOOSE c \in Configs : c.strategy = Lower(name)).params
      ELSE NoParams

\* the calls explored: interval and the type of the dates matter to the
\* minute branch only
CallArgs ==
    {a \in [symbol : Symbols, strategy_name : CallNames,
            start_date : 1 .. CallBars, end_date : 1 .. CallBars + 1,
            data_type : {"daily", "minute"}, interval : Intervals,
            dates : {"str", "date"}, initial_cash : {InitialCash},
            commission : {QZero},
            strategy_params : {ParamsFor(n) : n \in CallNames}] :
        /\ a.strategy_params = ParamsFor(a.strategy_name)
        /\ a.data_type = "daily" => a.interval = "1m" /\ a.dates = "str"}

InitCall ==
    /\ data = << >>
    /\ feed = "call"
    /\ runs = << >>
    /\ results = << >>
    /\ best = NoBest
    /\ minutes = << >>
    /\ grids = STRATEGY_PARAM_GRIDS
    /\ opt = NoCall
    /\ gateway = NoGateway

\* one more daily candle in the store
SyncDaily ==
    /\ opt.op = "none"
    /\ Len(data) < SeriesBars(feed)
    /\ \E b \in NextBars(feed, data) : data' = Append(data, b)
    /\ UNCHANGED <<runs, feed, results, best, minutes, grids, opt, gateway>>

\* one more minute candle in the store, of some interval, on the date of
\* the last one or a later date and at a later time
SyncMinute ==
    /\ opt.op = "none"
    /\ Len(minutes) < MinuteBars
    /\ \E date \in (IF minutes = << >> THEN 1 ELSE minutes[Len(minutes)].date)
                      .. CallBars,
          interval \in Intervals :
          minutes' = Append(minutes,
                            [date |-> date, time |-> Len(minutes) + 1,
                             interval |-> interval, open |-> 20,
                             high |-> 20, low |-> 20, close |-> 20,
                             volume |-> Volume])
    /\ UNCHANGED <<data, runs, feed, results, best, grids, opt, gateway>>

\* a run_backtest call on day CallBars
CallRunBacktest ==
    /\ opt.op = "none"
    /\ \E a \in CallArgs, short \in ShortSeriesOutcomes :
          opt' = [op |-> "run_backtest", args |-> a,
                  outcome |-> RunBacktest(a, data, minutes, CallBars, 1, short)]
    /\ UNCHANGED <<data, runs, feed, results, best, minutes, grids, gateway>>

NextCall == SyncDaily \/ SyncMinute \/ CallRunBacktest

CallSpec == InitCall /\ [][NextCall]_vars

----------------------------------------------------------------------------
(* aggregate_kline (apps/data_master/management/commands/                  *)
(* aggregate_minute_data.py): 1-minute candles resampled into 5-minute or  *)
(* 1-hour candles.  A datetime is a number of minutes.                     *)

MaxTicks == 3

\* the minutes at which a 1-minute candle may be stored
TickTimes == {0, 4, 5, 11, 59, 60, 125}

\* open, high, low, close, volume and amount of the 1-minute candles
TickShapes ==
    { [open |-> 19, high |-> 20, low |-> 19, close |-> 20, volume |-> 100, amount |-> 2000],
      [open |-> 20, high |-> 21, low |-> 18, close |-> 19, volume |-> 200, amount |-> 3800],
      [open |-> 20, high |-> 20, low |-> 20, close |-> 20, volume |-> 0, amount |-> 0],
      [open |-> 19, high |-> 22, low |-> 17, close |-> 19, volume |-> 300, amount |-> 5700] }

\* the start of the bin of width w that holds minute t (resample: bins
\* closed and labelled on the left, counted from midnight)
BinStart(t, w) == (t \div w) * w

MaxOf(S) == CHOOSE x \in S : \A y \in S : y <= x
MinOf(S) == CHOOSE x \in S : \A y \in S : x <= y

RECURSIVE SumOf(_, _)
SumOf(rows, field) ==
    IF rows = << >> THEN 0 ELSE rows[1][field] + SumOf(Tail(rows), field)

\* an aggregation that takes the close of the first row of the bin
AggFirstClose(t, rows) ==
    IF rows = << >>
      THEN [datetime |-> t, open |-> None, high |-> None, low |-> None,
            close |-> None, volume |-> 0, amount |-> 0]
      ELSE [datetime |-> t,
            open   |-> Some(rows[1].open),
            high   |-> Some(MaxOf({rows[i].high : i \in DOMAIN rows})),
            low    |-> Some(MinOf({rows[i].low : i \in DOMAIN rows})),
            close  |-> Some(rows[1].close),
            volume |-> SumOf(rows, "volume"),
            amount |-> SumOf(rows, "amount")]

\* .agg({'open': 'first', 'high': 'max', 'low': 'min', 'close': 'last',
\* 'volume': 'sum', 'amount': 'sum'}) over the rows of one bin: first, max,
\* min and last of no row are NaN (None), the sums of no row are 0
Agg(t, rows) ==
    IF rows = << >>
      THEN [datetime |-> t, open |-> None, high |-> None, low |-> None,
            close |-> None, volume |-> 0, amount |-> 0]
      ELSE [datetime |-> t,
            open   |-> Some(rows[1].open),
            high   |-> Some(MaxOf({rows[i].high : i \in DOMAIN rows})),
            low    |-> Some(MinOf({rows[i].low : i \in DOMAIN rows})),
            close  |-> Some(rows[Len(rows)].close),
            volume |-> SumOf(rows, "volume"),
            amount |-> SumOf(rows, "amount")]

\* df.resample(...).agg(...).reset_index(): one row for every bin from the
\* bin of the first candle to the bin of the last one
Resampled(df, w) ==
    LET lo == BinStart(df[1].datetime, w)
        hi == BinStart(df[Len(df)].datetime, w)
    IN  [k \in 1 .. ((hi - lo) \div w) + 1 |->
            Agg(lo + (k - 1) * w,
                SelectSeq(df, LAMBDA r : BinStart(r.datetime, w) = lo + (k - 1) * w))]

\* grouped.dropna(): the rows with a NaN are dropped; the others keep their
\* numbers
DropNa(rows) ==
    LET kept == SelectSeq(rows, LAMBDA r : /\ r.open # None /\ r.high # None
                                          /\ r.low # None /\ r.close # None)
    IN  [i \in DOMAIN kept |->
            [datetime |-> kept[i].datetime, open |-> Num(kept[i].open),
             high |-> Num(kept[i].high), low |-> Num(kept[i].low),
             close |-> Num(kept[i].close), volume |-> kept[i].volume,
             amount |-> kept[i].amount]]

\* Command.aggregate_kline(df_1m, interval_minutes)
AggregateKline(df_1m, interval_minutes) ==
    IF interval_minutes \in {5, 60}
      THEN [kind |-> "returned", value |-> DropNa(Resampled(df_1m, interval_minutes))]
      ELSE [kind |-> "raised", value |-> << >>]

\* the widths asked for
IntervalMinutes == {5, 15, 60}

InitAgg ==
    /\ data = << >>
    /\ feed = "agg"
    /\ runs = << >>
    /\ results = << >>
    /\ best = NoBest
    /\ minutes = << >>
    /\ grids = STRATEGY_PARAM_GRIDS
    /\ opt = NoCall
    /\ gateway = NoGateway

\* one more 1-minute candle in the store, later than the last one
SyncTick ==
    /\ opt.op = "none"
    /\ Len(minutes) < MaxTicks
    /\ \E t \in TickTimes, c \in TickShapes :
          /\ minutes # << >> => t > minutes[Len(minutes)].datetime
          /\ minutes' = Append(minutes, [datetime |-> t] @@ c)
    /\ UNCHANGED <<data, runs, feed, results, best, grids, opt, gateway>>

\* handle() aggregates the 1-minute candles of an instrument that has some
Aggregate ==
    /\ opt.op = "none"
    /\ minutes # << >>
    /\ \E w \in IntervalMinutes :
          opt' = [op |-> "aggregate_kline", args |-> [interval_minutes |-> w],
                  outcome |-> AggregateKline(minutes, w)]
    /\ UNCHANGED <<data, runs, feed, results, best, minutes, grids, gateway>>

NextAgg == SyncTick \/ Aggregate

AggSpec == InitAgg /\ [][NextAgg]_vars

----------------------------------------------------------------------------
(* find_best_strategy (apps/backtest/optimizer.py) over a list of results. *)

MaxResults == 3

\* the fields of a result that find_best_strategy reads, the numbers being
\* rationals; the lists explored come in three families, each varying the
\* fields one ranking reads
Maybe(ns) == {None} \cup {Some(QI(n)) : n \in ns}

ResultEntries(family) ==
    CASE family = "returns" ->
           [total_return_pct : Maybe({0, 5}),
            annual_return_pct : {Some(QZero)}, total_trades : {0, 2},
            sharpe_ratio : Maybe({-1, 1})]
      [] family = "annual" ->
           [total_return_pct : {Some(QZero)},
            annual_return_pct : Maybe({0, 5}), total_trades : {0, 2},
            sharpe_ratio : Maybe({1})]
      [] OTHER ->
           [total_return_pct : {Some(QZero)}, annual_return_pct : {Some(QZero)},
            total_trades : {0, 2},
            sharpe_ratio : Maybe({-2, -1, 0, 1, 2})]

Families == {"returns", "annual", "sharpe"}

Metrics == {"total_return_pct", "sharpe_ratio", "annual_return_pct"}

\* [r for r in results if r.get(metric) is not None]
ValidResults(rs, metric) == SelectSeq(rs, LAMBDA r : r[metric] # None)

\* len(set(metric_values)) == 1
AllSame(rs, metric) == \A i \in DOMAIN rs, j \in DOMAIN rs : rs[i][metric] = rs[j][metric]

\* the tuples (total_trades, sharpe_ratio) of two results cannot be ordered:
\* the first components are equal and the second are None and a number
Unorderable(a, b) ==
    /\ a.total_trades = b.total_trades
    /\ (a.sharpe_ratio = None) # (b.sharpe_ratio = None)

\* sorting by the tuples compares two that cannot be ordered
TieSortRaises(rs) == \E i \in DOMAIN rs, j \in DOMAIN rs : Unorderable(rs[i], rs[j])

\* key (total_trades, sharpe_ratio), reverse=True
TieBefore(a, b) ==
    \/ a.total_trades > b.total_trades
    \/ /\ a.total_trades = b.total_trades
       /\ a.sharpe_ratio # None /\ b.sharpe_ratio # None
       /\ QLt(Num(b.sharpe_ratio), Num(a.sharpe_ratio))

\* ascending by Sharpe ratio, whatever the sign
SharpeBeforeAscending(a, b) == QLt(Num(a.sharpe_ratio), Num(b.sharpe_ratio))

\* key (0 if sharpe > 0 else 1, -sharpe)
SharpeBefore(a, b) ==
    \/ QLt(QZero, Num(a.sharpe_ratio)) /\ ~QLt(QZero, Num(b.sharpe_ratio))
    \/ /\ QLt(QZero, Num(a.sharpe_ratio)) = QLt(QZero, Num(b.sharpe_ratio))
       /\ QLt(Num(b.sharpe_ratio), Num(a.sharpe_ratio))

\* key x.get(metric), reverse=True
ReturnBefore(metric, a, b) == QLt(Num(b[metric]), Num(a[metric]))

\* the sort keys of find_best_strategy: does a sort before b?
Before(key, a, b) ==
    CASE key = "tie" -> TieBefore(a, b)
      [] key = "sharpe_ratio" -> SharpeBefore(a, b)
      [] OTHER -> ReturnBefore(key, a, b)

\* list.sort, which is stable: element i goes behind the elements that sort
\* before it and the earlier elements that sort neither before nor after it
SortedPosition(rs, i, key) ==
    Cardinality({j \in DOMAIN rs : Before(key, rs[j], rs[i])})
    + Cardinality({j \in DOMAIN rs : /\ j < i
                                     /\ ~Before(key, rs[j], rs[i])
                                     /\ ~Before(key, rs[i], rs[j])})
    + 1

StableSort(rs, key) ==
    [k \in DOMAIN rs |-> rs[CHOOSE i \in DOMAIN rs : SortedPosition(rs, i, key) = k]]

\* the second sort and best = valid_results[0]
BestByMetric(valid, metric) ==
    Returned(StableSort(valid, metric)[1])

\* find_best_strategy once the results without the metric are dropped
BestOfValid(valid, metric) ==
    IF valid = << >> THEN Returned(None)
    ELSE IF AllSame(valid, metric) /\ metric = "total_return_pct"
      THEN (IF TieSortRaises(valid) THEN Raised("TypeError")
            ELSE BestByMetric(StableSort(valid, "tie"), metric))
    ELSE BestByMetric(valid, metric)

FindBestStrategy(rs, metric) ==
    IF rs = << >> THEN Returned(None) ELSE BestOfValid(ValidResults(rs, metric), metric)

InitBest ==
    /\ data = << >>
    /\ feed \in Families
    /\ runs = << >>
    /\ results = << >>
    /\ best = NoBest
    /\ minutes = << >>
    /\ grids = STRATEGY_PARAM_GRIDS
    /\ opt = NoCall
    /\ gateway = NoGateway

\* batch_backtest_all_strategies appends the result of one more run
Collect ==
    /\ best = NoBest
    /\ Len(results) < MaxResults
    /\ \E e \in ResultEntries(feed) : results' = Append(results, e)
    /\ UNCHANGED <<data, runs, feed, best, minutes, grids, opt, gateway>>

\* find_best_strategy(results, metric)
FindBest ==
    /\ best = NoBest
    /\ \E metric \in Metrics :
          best' = [metric |-> metric, outcome |-> FindBestStrategy(results, metric)]
    /\ UNCHANGED <<data, runs, feed, results, minutes, grids, opt, gateway>>

NextBest == Collect \/ FindBest

BestSpec == InitBest /\ [][NextBest]_vars

----------------------------------------------------------------------------
(* optimize_single_strategy and batch_backtest_all_strategies              *)
(* (apps/backtest/optimizer.py): one run_backtest call per parameter       *)
(* combination, each inside try / except Exception / continue.  A          *)
(* stand-alone run_backtest call (run 1) is made first over the same       *)
(* store.                                                                  *)

\* a table of grids short enough for the stores explored
OptGrids ==
    [ macross |-> << Param("fast_period", <<1>>), Param("slow_period", <<2, 3>>) >>,
      rsi |-> << Param("period", <<2, 3>>) >>,
      mean_reversion |-> << Param("period", <<2, 3>>),
                            Param("threshold", << Q(1, 50) >>) >> ]

\* the strategy names optimize_single_strategy is asked for
OptNames == DOMAIN OptGrids \cup {"unknown"}

\* the stand-alone calls: a strategy of the table with one of its combinations
StandaloneConfigs ==
    UNION { {[strategy |-> n, params |-> StrategyParams(n, c)] :
               c \in {GenerateParamCombinations(OptGrids, n)[i] :
                        i \in DOMAIN GenerateParamCombinations(OptGrids, n)}} :
            n \in DOMAIN OptGrids }

InitOpt ==
    /\ data = << >>
    /\ feed = "opt"
    /\ results = << >>
    /\ best = NoBest
    /\ minutes = << >>
    /\ grids = OptGrids
    /\ opt = NoCall
    /\ gateway = NoGateway
    /\ \E c \in StandaloneConfigs, k \in Commissions :
          runs = [r \in {1} |->
                    NewRun(c.strategy, c.params, InitialCash, k, OptBars, OptBars)]

\* the (strategy_name, params) pairs of the loop, in its order
CombinationsOf(table, name) ==
    [i \in DOMAIN GenerateParamCombinations(table, name) |->
        [strategy_name |-> name,
         params |-> GenerateParamCombinations(table, name)[i]]]

RECURSIVE BatchCombinations(_, _)
\* for strategy_name in strategies_to_test: for params in param_combinations
BatchCombinations(table, names) ==
    IF names = << >> THEN << >>
    ELSE CombinationsOf(table, Head(names)) \o BatchCombinations(table, Tail(names))

\* the loop has not returned
NoOutcome == [kind |-> "none"]

\* the state of a call at its first iteration
Started(op, a, combinations, refbasis) ==
    [op |-> op, args |-> a, combinations |-> combinations, i |-> 0,
     \* history of the call, kept for stating properties
     log |-> << >>,
     refbasis |-> refbasis, outcome |-> NoOutcome]

\* the arguments the optimizer has in common with run_backtest
OptArgs ==
    [symbol : Symbols, start_date : {1}, end_date : {OptBars},
     data_type : {"daily"}, initial_cash : {InitialCash}, commission : Commissions]

\* optimize_single_strategy up to the loop
StartOptimize ==
    /\ opt.op = "none"
    /\ ~Running
    /\ \E a \in OptArgs, name \in OptNames :
          opt' = Started("optimize_single_strategy",
                         a @@ [strategy_name |-> name],
                         CombinationsOf(grids, name), runs[1].nextref)
    /\ results' = << >>
    /\ UNCHANGED <<data, runs, feed, best, minutes, grids, gateway>>

\* batch_backtest_all_strategies up to the loop: strategies_to_test is the
\* registry cut to max_strategies
StartBatch ==
    /\ opt.op = "none"
    /\ ~Running
    /\ \E a \in OptArgs, max_strategies \in 1 .. MaxStrategies :
          opt' = Started("batch_backtest_all_strategies",
                         a @@ [max_strategies |-> max_strategies],
                         BatchCombinations(grids, SubSeq(RegistryKeys, 1, max_strategies)),
                         runs[1].nextref)
    /\ results' = << >>
    /\ UNCHANGED <<data, runs, feed, best, minutes, grids, gateway>>

\* a loop that hands every run the money the last successful one ended with
CombinationArgsCarryingCash(a, c, rs) ==
    [symbol |-> a.symbol, strategy_name |-> c.strategy_name,
     start_date |-> a.start_date, end_date |-> a.end_date,
     data_type |-> a.data_type, interval |-> "1m", dates |-> "str",
     initial_cash |-> IF rs = << >> THEN a.initial_cash
                      ELSE QFloor(rs[Len(rs)].final_value),
     commission |-> a.commission, strategy_params |-> c.params]

\* run_backtest(symbol=symbol, strategy_name=strategy_name, ..., **params);
\* the printlog=False of the batch changes nothing but the printing
CombinationArgs(a, c, rs) ==
    [symbol |-> a.symbol, strategy_name |-> c.strategy_name,
     start_date |-> a.start_date, end_date |-> a.end_date,
     data_type |-> a.data_type, interval |-> "1m", dates |-> "str",
     initial_cash |-> a.initial_cash, commission |-> a.commission,
     strategy_params |-> c.params]

\* a loop that breaks at the first failure
NextIndexBreak(i, n, raised) == IF raised THEN n ELSE i + 1

\* continue: the loop goes to the next combination, whether the run raised
\* or not
NextIndex(i, n, raised) == i + 1

\* result['strategy_params'] = params, and in the batch the strategy name
\* and the symbol as well
Tagged(op, result, c, a) ==
    IF op = "batch_backtest_all_strategies"
      THEN result @@ [strategy_params |-> c.params,
                      strategy_name |-> c.strategy_name, symbol |-> a.symbol]
      ELSE result @@ [strategy_params |-> c.params]

\* the rest of an iteration once run_backtest is over
Iterated(c, out) ==
    /\ opt' = [opt EXCEPT
                 !.i = NextIndex(opt.i, Len(opt.combinations),
                                 out.kind = "raised"),
                 !.log = Append(@, [index |-> opt.i + 1, kind |-> out.kind]),
                 !.refbasis = out.refbasis]
    /\ results' = IF out.kind = "returned"
                    THEN Append(results, Tagged(opt.op, out.value, c, opt.args))
                    ELSE results

\* one iteration of the loop of either function
RunCombination ==
    /\ opt.op \in {"optimize_single_strategy", "batch_backtest_all_strategies"}
    /\ opt.outcome.kind = "none"
    /\ opt.i < Len(opt.combinations)
    /\ \E short \in ShortSeriesOutcomes :
          Iterated(opt.combinations[opt.i + 1],
                   RunBacktest(CombinationArgs(opt.args, opt.combinations[opt.i + 1],
                                               results),
                               data, minutes, OptBars, opt.refbasis, short))
    /\ UNCHANGED <<data, runs, feed, best, minutes, grids, gateway>>

\* the dict optimize_single_strategy returns, unless a find_best_strategy
\* call raises
OptimizationResult(a, rs, total, by_return, by_sharpe, by_annual) ==
    IF by_return.kind = "raised" THEN by_return
    ELSE IF by_sharpe.kind = "raised" THEN by_sharpe
    ELSE IF by_annual.kind = "raised" THEN by_annual
    ELSE Returned([symbol |-> a.symbol, strategy_name |-> a.strategy_name,
                   all_results |-> rs, total_combinations |-> total,
                   valid_results |-> Len(rs),
                   best_by_return |-> by_return.value,
                   best_by_sharpe |-> by_sharpe.value,
                   best_by_annual |-> by_annual.value])

\* optimize_single_strategy after the loop
ReturnOptimize ==
    /\ opt.op = "optimize_single_strategy"
    /\ opt.outcome.kind = "none"
    /\ opt.i >= Len(opt.combinations)
    /\ opt' = [opt EXCEPT !.outcome =
                 OptimizationResult(opt.args, results, Len(opt.combinations),
                                    FindBestStrategy(results, "total_return_pct"),
                                    FindBestStrategy(results, "sharpe_ratio"),
                                    FindBestStrategy(results, "annual_return_pct"))]
    /\ UNCHANGED <<data, runs, feed, results, best, minutes, grids, gateway>>

\* batch_backtest_all_strategies after the loop: return results
ReturnBatch ==
    /\ opt.op = "batch_backtest_all_strategies"
    /\ opt.outcome.kind = "none"
    /\ opt.i >= Len(opt.combinations)
    /\ opt' = [opt EXCEPT !.outcome = Returned(results)]
    /\ UNCHANGED <<data, runs, feed, results, best, minutes, grids, gateway>>

NextOpt ==
    \/ NextBar
    \/ Finish
    \/ StartOptimize
    \/ StartBatch
    \/ RunCombination
    \/ ReturnOptimize
    \/ ReturnBatch

OptSpec == InitOpt /\ [][NextOpt]_vars

----------------------------------------------------------------------------
(* batch_optimize_all_etfs (apps/backtest/optimizer.py): one               *)
(* batch_backtest_all_strategies call per instrument, each iteration       *)
(* inside try / except Exception / continue.                               *)

\* Instrument.objects.filter(market='CN', candles__isnull=False).distinct()
\* .order_by('symbol'): the instruments with candles, in symbol order
EtfRows ==
    << [symbol |-> "DELISTED", name |-> "delisted fund"],
       [symbol |-> "ETF", name |-> "fund"] >>

\* the candles of an instrument: those of "DELISTED" end with the first date
CandlesOf(symbol, d) == IF symbol = "ETF" THEN d ELSE SubSeq(d, 1, 1)

\* if max_etfs: etfs = etfs[:max_etfs]
Etfs(max_etfs) ==
    IF max_etfs = 0 THEN EtfRows
    ELSE SubSeq(EtfRows, 1, IF max_etfs < Len(EtfRows) THEN max_etfs ELSE Len(EtfRows))

\* the arguments handed on to batch_backtest_all_strategies
EtfArgs(a, symbol) ==
    [symbol |-> symbol, start_date |-> a.start_date, end_date |-> a.end_date,
     data_type |-> a.data_type, initial_cash |-> a.initial_cash,
     commission |-> a.commission]

\* one iteration of the loop of batch_backtest_all_strategies: the result
\* of a run that returned is tagged and appended
Collected(a, c, acc, out) ==
    [i |-> acc.i + 1,
     results |-> IF out.kind = "returned"
                   THEN Append(acc.results,
                               Tagged("batch_backtest_all_strategies", out.value, c, a))
                   ELSE acc.results,
     refbasis |-> out.refbasis]

RECURSIVE BatchResults(_, _, _, _, _, _)
\* batch_backtest_all_strategies as one call, from the state acc of its
\* loop on: the combinations done, the results list and the order counter
BatchResults(a, cs, d, today, short, acc) ==
    IF acc.i >= Len(cs) THEN acc
    ELSE BatchResults(a, cs, d, today, short,
                      Collected(a, cs[acc.i + 1], acc,
                                RunBacktest(CombinationArgs(a, cs[acc.i + 1],
                                                            acc.results),
                                            d, << >>, today, acc.refbasis, short)))

\* all_results[symbol] = {...}
DetailedEntry(etf, rs, by_return, by_sharpe, by_annual) ==
    [symbol |-> etf.symbol, etf_name |-> etf.name, all_results |-> rs,
     best_by_return |-> by_return, best_by_sharpe |-> by_sharpe,
     best_by_annual |-> by_annual]

\* the row of the summary
SummaryRow(etf, b) ==
    [symbol |-> etf.symbol, name |-> etf.name,
     best_strategy |-> b.strategy_name, best_params |-> b.strategy_params,
     total_return |-> b.total_return_pct, annual_return |-> b.annual_return_pct,
     sharpe_ratio |-> IF b.sharpe_ratio # None THEN b.sharpe_ratio ELSE Some(QZero),
     total_trades |-> b.total_trades, data_points |-> b.data_points]

\* the body of the loop once batch_backtest_all_strategies has returned rs:
\* `continue` on an empty list, the three find_best_strategy calls, the
\* entry of all_results and the row of the summary; an exception of a
\* find_best_strategy call is caught by `except Exception` and the loop
\* goes on
EtfIterated(o, etf, rs, by_return, by_sharpe, by_annual) ==
    IF rs = << >> THEN o
    ELSE IF "raised" \in {by_return.kind, by_sharpe.kind, by_annual.kind} THEN o
    ELSE [o EXCEPT
            !.all_results = Append(@, DetailedEntry(etf, rs, by_return.value,
                                                    by_sharpe.value, by_annual.value)),
            !.summary = IF by_return.value # None
                          THEN Append(@, SummaryRow(etf, by_return.value))
                          ELSE @]

\* an iteration `for etf in etfs`, given what the batch call returned
EtfStep(o, etf, batch) ==
    [EtfIterated(o, etf, batch.results,
                 FindBestStrategy(batch.results, "total_return_pct"),
                 FindBestStrategy(batch.results, "sharpe_ratio"),
                 FindBestStrategy(batch.results, "annual_return_pct"))
       EXCEPT !.i = o.i + 1,
              !.refbasis = batch.refbasis,
              \* history of the call, kept for stating properties
              !.log = Append(@, [symbol |-> etf.symbol,
                                 successes |-> Len(batch.results)])]

\* the arguments of batch_optimize_all_etfs; max_etfs 0 stands for None
AllEtfsArgs ==
    [start_date : {1, 2}, end_date : {EtfBars}, data_type : {"daily"},
     initial_cash : {InitialCash}, commission : Commissions, max_etfs : {0, 1}]

InitEtf ==
    /\ data = << >>
    /\ feed = "etf"
    /\ runs = << >>
    /\ results = << >>
    /\ best = NoBest
    /\ minutes = << >>
    /\ grids = OptGrids
    /\ opt = NoCall
    /\ gateway = NoGateway

\* batch_optimize_all_etfs up to the loop, every instrument having a candle
StartAllEtfs ==
    /\ opt.op = "none"
    /\ data # << >>
    /\ \E a \in AllEtfsArgs :
          opt' = [op |-> "batch_optimize_all_etfs", args |-> a,
                  etfs |-> Etfs(a.max_etfs), i |-> 0, log |-> << >>,
                  all_results |-> << >>, summary |-> << >>,
                  refbasis |-> 1, outcome |-> NoOutcome]
    /\ UNCHANGED <<data, runs, feed, results, best, minutes, grids, gateway>>

\* one iteration of the loop over the instruments
OptimizeEtf ==
    /\ opt.op = "batch_optimize_all_etfs"
    /\ opt.outcome.kind = "none"
    /\ opt.i < Len(opt.etfs)
    /\ \E short \in ShortSeriesOutcomes :
          opt' = EtfStep(opt, opt.etfs[opt.i + 1],
                         BatchResults(EtfArgs(opt.args, opt.etfs[opt.i + 1].symbol),
                                      BatchCombinations(grids, RegistryKeys),
                                      CandlesOf(opt.etfs[opt.i + 1].symbol, data),
                                      EtfBars, short,
                                      [i |-> 0, results |-> << >>,
                                       refbasis |-> opt.refbasis]))
    /\ UNCHANGED <<data, runs, feed, results, best, minutes, grids, gateway>>

\* batch_optimize_all_etfs after the loop; summary_df is the summary as a
\* DataFrame
ReturnAllEtfs ==
    /\ opt.op = "batch_optimize_all_etfs"
    /\ opt.outcome.kind = "none"
    /\ opt.i >= Len(opt.etfs)
    /\ opt' = [opt EXCEPT !.outcome =
                 Returned([summary |-> opt.summary,
                           detailed_results |-> opt.all_results,
                           total_etfs |-> Len(opt.all_results),
                           total_strategies_tested |-> Len(RegistryKeys)])]
    /\ UNCHANGED <<data, runs, feed, results, best, minutes, grids, gateway>>

NextEtf == SyncDaily \/ StartAllEtfs \/ OptimizeEtf \/ ReturnAllEtfs

EtfSpec == InitEtf /\ [][NextEtf]_vars

----------------------------------------------------------------------------
(* ExecutionGateway (apps/trading/execution_gateway.py): orders executed   *)
(* in simulation are written to the trade_records table with slippage and  *)
(* a fee. Decimal arithmetic is exact on the amounts explored.             *)

MaxOrders == 2
MaxMarketBars == 1

\* ExecutionGateway.__init__
ExecutionGateway(mode, commission_rate, slippage) ==
    [mode |-> mode, commission_rate |-> commission_rate, slippage |-> slippage,
     \* close_price of the MarketData rows of the symbol, oldest first
     market |-> << >>,
     \* the rows of TradeRecord, in the order they were created
     trade_records |-> << >>,
     \* history of the calls of execute_order, kept for stating properties
     calls |-> << >>]

\* MarketData.objects.filter(symbol=..., exchange=...).order_by('-datetime')
\* .first(): the close of the latest row, None when there is no row
LatestBar(market) == IF market = << >> THEN None ELSE Some(market[Len(market)])

\* a slippage applied upwards to every order
ExecutionPriceUpwards(direction, price, slippage) == QMul(price, QAdd(QI(1), slippage))

\* price * (1 + slippage) for a BUY, price * (1 - slippage) otherwise
ExecutionPrice(direction, price, slippage) ==
    IF direction = "BUY" THEN QMul(price, QAdd(QI(1), slippage))
    ELSE QMul(price, QSub(QI(1), slippage))

\* ExecutionGateway._execute_simulation_order: what it returns and the
\* trade_records table after it; `query` tells whether the query for the
\* latest bar answers or raises
ExecuteSimulationOrder(g, o, query) ==
    LET latest_bar == LatestBar(g.market)
        price == IF o.price = None THEN Num(latest_bar) ELSE Num(o.price)
        execution_price == ExecutionPrice(o.direction, price, g.slippage)
        total_amount == QMul(execution_price, o.quantity)
        fee == QMul(total_amount, g.commission_rate)
    IN  IF o.price = None /\ (query = "raises" \/ latest_bar = None)
          THEN [returned |-> FALSE, trade_records |-> g.trade_records]
        ELSE [returned |-> TRUE,
              trade_records |->
                  Append(g.trade_records,
                         [direction |-> o.direction, order_type |-> o.order_type,
                          price |-> execution_price, quantity |-> o.quantity,
                          fee |-> fee, is_backtest |-> FALSE])]

\* ExecutionGateway._execute_live_order: not implemented, returns False
ExecuteLiveOrder(g, o) == [returned |-> FALSE, trade_records |-> g.trade_records]

\* ExecutionGateway.execute_order
GatewayExecuteOrder(g, o, query) ==
    IF g.mode = "simulation" THEN ExecuteSimulationOrder(g, o, query)
    ELSE ExecuteLiveOrder(g, o)

\* slippage and commission_rate of the gateways explored: none, the
\* defaults 0.0005 and 0.001, and 1%
Slippages == {QZero, Q(1, 2000), Q(1, 100)}
CommissionRates == {Q(1, 1000), Q(1, 100)}

\* the orders explored: a market order without a price, and a limit order
\* with its price, for a whole and a fractional quantity
Orders ==
    [direction : {"BUY", "SELL"}, price : {None}, quantity : {QI(1), Q(5, 2)},
     order_type : {"MARKET"}]
      \cup [direction : {"BUY", "SELL"}, price : {Some(Q(1001, 100))},
            quantity : {QI(1), Q(5, 2)}, order_type : {"LIMIT"}]

\* the outcomes of the query for the latest bar
Queries(o) == IF o.price = None THEN {"answers", "raises"} ELSE {"answers"}

\* a gateway over an empty MarketData table
InitGateway ==
    /\ data = << >>
    /\ feed = "gateway"
    /\ runs = << >>
    /\ results = << >>
    /\ best = NoBest
    /\ minutes = << >>
    /\ grids = STRATEGY_PARAM_GRIDS
    /\ opt = NoCall
    /\ \E mode \in {"simulation", "live"}, c \in CommissionRates, s \in Slippages :
          gateway = ExecutionGateway(mode, c, s)

\* a bar of the symbol is stored
StoreMarketBar ==
    /\ Len(gateway.market) < MaxMarketBars
    /\ gateway' = [gateway EXCEPT !.market = Append(@, Q(41, 4))]
    /\ UNCHANGED <<data, runs, feed, results, best, minutes, grids, opt>>

\* a call execute_order(strategy_name, symbol, direction, price, quantity,
\* order_type)
CallExecuteOrder ==
    /\ Len(gateway.calls) < MaxOrders
    /\ \E o \in Orders : \E query \in Queries(o) :
          LET res == GatewayExecuteOrder(gateway, o, query)
          IN  gateway' =
                [gateway EXCEPT
                    !.trade_records = res.trade_records,
                    !.calls = Append(@, [order |-> o, query |-> query,
                                         latest_bar |-> LatestBar(gateway.market),
                                         before |-> Len(gateway.trade_records),
                                         after |-> Len(res.trade_records),
                                         returned |-> res.returned])]
    /\ UNCHANGED <<data, runs, feed, results, best, minutes, grids, opt>>

NextGateway == StoreMarketBar \/ CallExecuteOrder

GatewaySpec == InitGateway /\ [][NextGateway]_vars

----------------------------------------------------------------------------
(* Properties of a run.                                                    *)

Done(r) == runs[r].status = "done"

\* what run_backtest returned for run r
Result(r) == RunResult(runs[r], Loaded(runs[r], data))

\* the bar numbers (len(self.data)) at which run r submitted an order
OrderBars(r) == {runs[r].orderlog[i].bar : i \in DOMAIN runs[r].orderlog}

\* the largest lookback of the indicators a strategy depends on
Lookback(strategy, P) ==
    CASE strategy = "macross" -> P.slow_period
      [] strategy = "macd" -> P.slow_period + P.signal_period
      [] strategy \in {"rsi", "bollinger", "mean_reversion"} -> P.period
      [] strategy = "triple_ma" -> P.slow_period
      [] strategy = "pyramid_add" -> P.ma_period

\* C1: every completed run returns an equity curve with exactly one point
\* per input bar, warm-up bars included.
C1_EquityCurvePerBar ==
    \A r \in DOMAIN runs :
        Done(r) => Len(Result(r).equity_curve) = Result(r).data_points

C3_OneUnresolvedOrder ==
    \A r \in DOMAIN runs :
        /\ Len(runs[r].submitted) <= 1
        /\ runs[r].submitted # << >> => runs[r].order = runs[r].submitted[1].ref
        /\ runs[r].order # NoOrder => runs[r].submitted # << >>
        /\ \A i \in DOMAIN runs[r].orderlog : runs[r].orderlog[i].pending = NoOrder
        /\ \A i \in DOMAIN runs[r].notiflog :
              /\ runs[r].notiflog[i].status \in {"Submitted", "Accepted"}
                   => runs[r].notiflog[i].after = runs[r].notiflog[i].before
              /\ runs[r].notiflog[i].after # runs[r].notiflog[i].before
                   => /\ runs[r].notiflog[i].after = NoOrder
                      /\ runs[r].notiflog[i].status \in TerminalStatus

\* an order rejected for margin emptied self.order, and a later order is
\* waiting for the next bar
C3_RejectedThenPending ==
    \E r \in DOMAIN runs :
        /\ runs[r].order # NoOrder
        /\ \E i \in DOMAIN runs[r].notiflog :
              /\ runs[r].notiflog[i].status = "Margin"
              /\ runs[r].notiflog[i].before # NoOrder

RECURSIVE QSeqSum(_)
QSeqSum(s) == IF s = << >> THEN QZero ELSE QAdd(s[1], QSeqSum(Tail(s)))

\* final equity minus initial cash minus the unrealized P&L of the open
\* position: size * (last close - average entry price)
RealizedByEquity(st, bar) ==
    QSub(QSub(GetValue(st, bar), st.startingcash),
         QMul(st.possize, QSub(QI(bar.close), st.posprice)))

LastBar(r) == data[Len(Loaded(runs[r], data))]

\* C4 as stated: at the end of a completed run the net P&L of the closed
\* trades sums to final equity - initial cash - unrealized P&L.
C4_ClosedPnlIdentity ==
    \A r \in DOMAIN runs :
        Done(r) => QSeqSum(runs[r].closedpnl) = RealizedByEquity(runs[r], LastBar(r))

\* C4: at the end of a completed run the net P&L of the closed trades sums
\* to final equity - initial cash - unrealized P&L + the commission already
\* paid on the entries of the position still open.
C4_ClosedPnlIdentityNet ==
    \A r \in DOMAIN runs :
        Done(r) => QSeqSum(runs[r].closedpnl)
                     = QAdd(RealizedByEquity(runs[r], LastBar(r)), runs[r].tradecomm)

\* a completed run with commission, a closed trade and a position still open
C4_ClosedAndOpen ==
    \E r \in DOMAIN runs :
        /\ Done(r)
        /\ feed = "walk"
        /\ runs[r].commission # QZero
        /\ runs[r].closedpnl # << >>
        /\ HasPosition(runs[r])

\* the bars (from the first with an RSI value) whose RSI is below oversold /
\* above overbought
RSIBelow(st) == {n \in DOMAIN st.lines.rsi : QLt(st.lines.rsi[n], QI(st.params.oversold))}
RSIAbove(st) == {n \in DOMAIN st.lines.rsi : QLt(QI(st.params.overbought), st.lines.rsi[n])}

\* a non-empty set of consecutive bar numbers
IsStretch(S) == S # {} /\ \A a \in S, b \in S : \A n \in a..b : n \in S

\* the RSI is below oversold during one stretch of bars and, later, above
\* overbought during one stretch of bars
DipThenRise(st) ==
    /\ IsStretch(RSIBelow(st))
    /\ IsStretch(RSIAbove(st))
    /\ \A a \in RSIBelow(st), b \in RSIAbove(st) : a < b

\* the orders run r submitted, in order: TRUE for a Buy, FALSE for a Sell
OrderSides(r) == [i \in DOMAIN runs[r].orderlog |-> runs[r].orderlog[i].isbuy]

Rejected(r) ==
    \E i \in DOMAIN runs[r].notiflog : runs[r].notiflog[i].status = "Margin"

\* a completed RSI run with thresholds 30 / 70 over a series whose RSI dips
\* and then rises
RSIScenario(r) ==
    /\ Done(r)
    /\ runs[r].strategy = "rsi"
    /\ runs[r].params.oversold = 30 /\ runs[r].params.overbought = 70
    /\ DipThenRise(runs[r])

----------------------------------------------------------------------------
(* Properties of two runs over the same store.                             *)

BothDone == DOMAIN runs = {1, 2} /\ Done(1) /\ Done(2)

CommissionPair ==
    /\ BothDone
    /\ EffectiveEndDate(runs[1]) = EffectiveEndDate(runs[2])
    /\ runs[1].commission = QZero
    /\ QLt(QZero, runs[2].commission)

\* the final equity of the run with commission is at most that of the run
\* without, and less when the run filled an order
CommissionCosts ==
    /\ QLe(Result(2).final_value, Result(1).final_value)
    /\ runs[2].trade_points # << >>
         => QLt(Result(2).final_value, Result(1).final_value)

----------------------------------------------------------------------------
(* Scenarios.                                                              *)

\* C7: on a series of 100 identical bars every strategy completes without
\* submitting an order, with zero trades and final equity = initial_cash.
C7_FlatSeriesNoTrade ==
    \A r \in DOMAIN runs :
        feed = "flat" =>
            /\ runs[r].status # "error"
            /\ runs[r].orderlog = << >>
            /\ Done(r) => /\ Result(r).total_trades = 0
                          /\ Result(r).final_value = runs[r].startingcash

\* C8: MA Crossover (5, 20) over close[i] = 100 + i submits no Sell after
\* its first Buy and opens at most one trade.
C8_RampNoSellAfterBuy ==
    \A r \in DOMAIN runs :
        feed = "ramp" =>
            /\ \A i \in DOMAIN runs[r].orderlog, j \in DOMAIN runs[r].orderlog :
                  i < j /\ runs[r].orderlog[i].isbuy => runs[r].orderlog[j].isbuy
            /\ runs[r].total_trades <= 1

\* a completed run over a ramp long enough for next() to have looked at the
\* crossover for several bars
C8_RampDecided ==
    \E r \in DOMAIN runs :
        /\ feed = "ramp" /\ Done(r)
        /\ runs[r].strategy = "macross"
        /\ runs[r].params = [fast_period |-> 5, slow_period |-> 20]
        /\ Len(data) >= runs[r].params.slow_period + 3
        /\ data[1].close = RampBase

----------------------------------------------------------------------------
(* Properties of find_best_strategy.                                       *)

\* every result of the list has the same, present, total_return_pct
EqualReturns ==
    /\ results # << >>
    /\ \A i \in DOMAIN results :
          /\ results[i].total_return_pct # None
          /\ results[i].total_return_pct = results[1].total_return_pct

\* C10: find_best_strategy(results, 'total_return_pct') over a list whose
\* results all have the same total_return_pct returns a result of the list
\* with the maximum total_trades, whatever the order of the list.
C10_EqualReturnsMostTrades ==
    best.metric = "total_return_pct" /\ EqualReturns =>
        /\ best.outcome.kind = "returned"
        /\ \E i \in DOMAIN results : best.outcome.value = results[i]
        /\ \A i \in DOMAIN results :
              results[i].total_trades <= best.outcome.value.total_trades

\* the results that have a value for the metric
Ranked(metric) == ValidResults(results, metric)

\* every result with a value for the metric has the same value
Tied(metric) == Ranked(metric) # << >> /\ AllSame(Ranked(metric), metric)

\* a is at least as good as b by Sharpe ratio, an absent ratio being the worst
SharpeAtLeast(a, b) ==
    \/ b.sharpe_ratio = None
    \/ a.sharpe_ratio # None /\ QLe(Num(b.sharpe_ratio), Num(a.sharpe_ratio))

\* find_best_strategy returned a result of the list
ReturnedMember ==
    /\ best.outcome.kind = "returned"
    /\ best.outcome.value # None
    /\ \E i \in DOMAIN results : best.outcome.value = results[i]

\* C11: for every ranking metric, when all results with a value for the
\* metric have the same value, find_best_strategy returns without raising a
\* result with the highest total_trades and, among those with equal
\* total_trades, the highest Sharpe ratio, also when some results have no
\* Sharpe ratio.
C11_TieBrokenForEveryMetric ==
    \A metric \in Metrics :
        best.metric = metric /\ Tied(metric) =>
            /\ ReturnedMember
            /\ \A i \in DOMAIN Ranked(metric) :
                  LET r == Ranked(metric)[i] IN
                  /\ r.total_trades <= best.outcome.value.total_trades
                  /\ r.total_trades = best.outcome.value.total_trades
                        => SharpeAtLeast(best.outcome.value, r)

\* C12: find_best_strategy(results, 'sharpe_ratio') returns without raising;
\* it returns None exactly when no result has a Sharpe ratio, never a result
\* whose Sharpe ratio is absent, and otherwise a result of the list whose
\* Sharpe ratio is the largest positive one when there is one and the
\* greatest non-positive one when there is none, which is the greatest of all.
C12_SharpeRanking ==
    best.metric = "sharpe_ratio" =>
        /\ best.outcome.kind = "returned"
        /\ (best.outcome.value = None) = (Ranked("sharpe_ratio") = << >>)
        /\ best.outcome.value # None =>
              /\ ReturnedMember
              /\ best.outcome.value.sharpe_ratio # None
              /\ \A i \in DOMAIN results : SharpeAtLeast(best.outcome.value, results[i])

\* a ranking by Sharpe ratio of a list that starts with a result without
\* one, then a negative, then two positive ones in ascending order
C12_PositiveBeforeNegative ==
    /\ best.metric = "sharpe_ratio"
    /\ Len(results) >= 3
    /\ results[1].sharpe_ratio = None
    /\ results[2].sharpe_ratio = Some(QI(-1))
    /\ results[3].sharpe_ratio = Some(QI(2))
    /\ best.outcome = Returned(results[3])

\* a ranking by Sharpe ratio of a list without a positive one
C12_GreatestNonPositive ==
    /\ best.metric = "sharpe_ratio"
    /\ Len(results) >= 2
    /\ results[1].sharpe_ratio = Some(QI(-2))
    /\ results[2].sharpe_ratio = Some(QI(-1))
    /\ \A i \in DOMAIN results :
          results[i].sharpe_ratio # None => QLt(Num(results[i].sharpe_ratio), QZero)
    /\ best.outcome = Returned(results[2])

\* C13: find_best_strategy(results, metric) for total_return_pct or
\* annual_return_pct returns a result of the list whose metric is at least
\* that of every result with a value for it, and returns None exactly when
\* the list is empty or no result has a value for the metric.
C13_MaxOfMetric ==
    \A metric \in {"total_return_pct", "annual_return_pct"} :
        best.metric = metric =>
            /\ best.outcome.kind = "returned"
            /\ (best.outcome.value = None) = (Ranked(metric) = << >>)
            /\ best.outcome.value # None =>
                  /\ ReturnedMember
                  /\ best.outcome.value[metric] # None
                  /\ \A i \in DOMAIN Ranked(metric) :
                        QLe(Num(Ranked(metric)[i][metric]), Num(best.outcome.value[metric]))

----------------------------------------------------------------------------
(* Properties of a rejected order.                                         *)

\* the notifications run r receives during the step
NewNotifications(r) ==
    {i \in DOMAIN runs'[r].notiflog : i > Len(runs[r].notiflog)}

\* C17: when the broker rejects an order for insufficient cash (Margin), the
\* bar leaves cash and position unchanged, records no trade point and no
\* trade, empties the strategy's pending-order field of the rejected order,
\* and the run goes on: next() of that bar may already submit a new order.
C17_RejectionIsNoOp ==
    [][\A r \in DOMAIN runs :
         \A i \in NewNotifications(r) :
            runs'[r].notiflog[i].status \in {"Margin", "Rejected"} =>
               /\ runs'[r].cash = runs[r].cash
               /\ runs'[r].possize = runs[r].possize
               /\ runs'[r].posprice = runs[r].posprice
               /\ runs'[r].trade_points = runs[r].trade_points
               /\ runs'[r].total_trades = runs[r].total_trades
               /\ runs'[r].closedpnl = runs[r].closedpnl
               /\ runs'[r].notiflog[i].before # NoOrder
               /\ runs'[r].notiflog[i].after = NoOrder
               /\ runs'[r].order # runs'[r].notiflog[i].before
               /\ runs'[r].status = "running"]_vars

\* a completed run in which an order was rejected and an order submitted on
\* a later bar was filled
C17_RejectedThenFilled ==
    \E r \in DOMAIN runs :
        /\ Done(r)
        /\ \E i \in DOMAIN runs[r].notiflog, j \in DOMAIN runs[r].notiflog :
              /\ i < j
              /\ runs[r].notiflog[i].status = "Margin"
              /\ runs[r].notiflog[j].status = "Completed"
              /\ runs[r].notiflog[j].before > runs[r].notiflog[i].before
              /\ runs[r].notiflog[j].bar > runs[r].notiflog[i].bar
        /\ runs[r].trade_points # << >>

\* the bars run r has replayed
Replayed(r) == Len(Loaded(runs[r], data))

\* the order submitted at bar i with reference ref was settled at bar i + 1,
\* before next() of that bar: a terminal notification of that bar emptied
\* self.order of it, and a fill was made at the open of bar i + 1
ResolvedNextBar(r, i, ref) ==
    \E k \in DOMAIN runs[r].notiflog :
        /\ runs[r].notiflog[k].bar = i + 1
        /\ runs[r].notiflog[k].before = ref
        /\ runs[r].notiflog[k].after = NoOrder
        /\ runs[r].notiflog[k].status \in {"Completed", "Partial", "Margin"}
        /\ runs[r].notiflog[k].status = "Completed" =>
              \E t \in DOMAIN runs[r].trade_points :
                  /\ runs[r].trade_points[t].bar = i + 1
                  /\ runs[r].trade_points[t].price = QI(data[i + 1].open)

\* every order of run r submitted before the last bar replayed is settled
OrdersResolved(r) ==
    \A j \in DOMAIN runs[r].orderlog :
        runs[r].orderlog[j].bar < Replayed(r) =>
            ResolvedNextBar(r, runs[r].orderlog[j].bar, runs[r].orderlog[j].ref)

\* C23: every order a strategy submits at bar i is resolved (filled at the
\* open of bar i + 1, or rejected) at bar i + 1 and before the strategy's
\* next decision, after which the pending-order field is empty; no order is
\* still pending when the run completes.
C23_ResolvedByNextBar ==
    \A r \in DOMAIN runs :
        /\ runs[r].status # "error" => OrdersResolved(r)
        /\ Done(r) => runs[r].order = NoOrder /\ runs[r].submitted = << >>

----------------------------------------------------------------------------
(* Properties of generate_param_combinations.                              *)

RECURSIVE Lengths(_)
\* the product of the lengths of the candidate lists of a grid
Lengths(grid) ==
    IF grid = << >> THEN 1 ELSE Len(Head(grid).values) * Lengths(Tail(grid))

\* the position of a value in a candidate list
Position(values, v) == CHOOSE i \in DOMAIN values : values[i] = v

\* combination a comes before combination b in the lexicographic order of
\* the grid, the first parameter being the most significant
LexBefore(grid, a, b) ==
    \E p \in DOMAIN grid :
        /\ \A q \in 1 .. p - 1 : a[grid[q].name] = b[grid[q].name]
        /\ Position(grid[p].values, a[grid[p].name])
             < Position(grid[p].values, b[grid[p].name])

\* the combinations are the cartesian product of the grid, in lexicographic
\* order
IsProduct(grid, combos) ==
    /\ Len(combos) = Lengths(grid)
    /\ \A n \in DOMAIN combos :
          /\ DOMAIN combos[n] = {grid[p].name : p \in DOMAIN grid}
          /\ \A p \in DOMAIN grid :
                \E i \in DOMAIN grid[p].values :
                    combos[n][grid[p].name] = grid[p].values[i]
    /\ \A n \in DOMAIN combos, m \in DOMAIN combos :
          n < m => combos[n] # combos[m] /\ LexBefore(grid, combos[n], combos[m])

\* C15: generate_param_combinations(strategy) for a strategy with a grid
\* returns the full cartesian product: as many dicts as the product of the
\* candidate-list lengths, pairwise distinct, each mapping every grid
\* parameter to one of its candidates, in lexicographic order with the last
\* parameter varying fastest; and no call modifies the grid table.
C15_CartesianProduct ==
    /\ [](opt.op = "generate_param_combinations"
            /\ opt.strategy_name \in DOMAIN grids
          => IsProduct(grids[opt.strategy_name], opt.combinations))
    /\ [][grids' = grids]_vars

\* the combinations of a grid of three parameters with two candidates each:
\* the second differs from the first in the last parameter only
C15_LastVariesFastest ==
    /\ opt.op = "generate_param_combinations"
    /\ opt.strategy_name \in DOMAIN grids
    /\ LET grid == grids[opt.strategy_name]
           combos == opt.combinations
       IN  /\ Len(grid) = 3
           /\ \A p \in DOMAIN grid : Len(grid[p].values) = 2
           /\ Len(combos) = 8
           /\ combos[1][grid[1].name] = combos[2][grid[1].name]
           /\ combos[1][grid[2].name] = combos[2][grid[2].name]
           /\ combos[1][grid[3].name] # combos[2][grid[3].name]
           /\ combos[1][grid[1].name] # combos[5][grid[1].name]

----------------------------------------------------------------------------
(* Properties of a run_backtest call.                                      *)

Called == opt.op = "run_backtest"

\* the call failed with this error
FailedWith(error) ==
    opt.outcome.kind = "raised" /\ opt.outcome.value.error = error

\* the name is a key of the registry, whatever the case of its letters
Registered(name) == name \in STRATEGY_REGISTRY \cup {"MACross", "RSI"}

\* a stored candle of the granularity and interval asked for lies in the
\* requested range, both ends included, and not after the day of the call
BarInRange(a) ==
    IF a.data_type = "daily"
      THEN \E i \in DOMAIN data :
              a.start_date <= i /\ i <= a.end_date /\ i <= CallBars
      ELSE \E i \in DOMAIN minutes :
              /\ minutes[i].interval = a.interval
              /\ a.start_date <= minutes[i].date /\ minutes[i].date <= a.end_date

\* the symbol has candles of the granularity asked for
HasBars(a) == IF a.data_type = "daily" THEN data # << >> ELSE minutes # << >>

\* C18 as stated: run_backtest with a strategy name that is not in the
\* registry, matched whatever the case, fails with the UnknownStrategy error
\* and returns no RunResult, whatever the other arguments are.
C18_UnknownStrategyWhateverArgs ==
    Called =>
        IF Registered(opt.args.strategy_name)
          THEN ~FailedWith("UnknownStrategy")
          ELSE FailedWith("UnknownStrategy")

\* C18: run_backtest with a strategy name that is not in the registry,
\* matched whatever the case, returns no RunResult whatever the other
\* arguments are: it fails with the InstrumentNotFound error when the symbol
\* is unknown, with the DataUnavailable error when it loads no candle, and
\* with the UnknownStrategy error in every other case, which includes every
\* call for daily candles with a stored candle in the requested range.
C18_UnknownStrategyAfterData ==
    Called =>
        IF Registered(opt.args.strategy_name)
          THEN ~FailedWith("UnknownStrategy")
          ELSE /\ opt.outcome.kind = "raised"
               /\ opt.outcome.value.error
                     \in {"InstrumentNotFound", "DataUnavailable", "UnknownStrategy"}
               /\ FailedWith("InstrumentNotFound") <=> opt.args.symbol \notin Instruments
               /\ FailedWith("DataUnavailable") => ~BarInRange(opt.args) \/ opt.args.dates = "str"
               /\ opt.args.symbol \in Instruments /\ opt.args.data_type = "daily"
                    /\ BarInRange(opt.args) => FailedWith("UnknownStrategy")

\* a call with an unknown strategy name for a known symbol with candles in
\* the range, for either granularity
C18_UnknownOverLoadedBars ==
    /\ Called
    /\ opt.args.strategy_name = "unknown"
    /\ opt.args.symbol \in Instruments
    /\ BarInRange(opt.args)
    /\ opt.args.data_type = "minute"
    /\ FailedWith("UnknownStrategy")
    /\ data # << >>

\* C20: for daily and for intraday candles, run_backtest never simulates
\* over an empty series: when no candle of the symbol lies in the requested
\* range it fails with DataUnavailable before Cerebro, its broker and the
\* strategy are created, and the error reports the available date range
\* when the symbol has candles outside the requested range.
C20_EmptyRangeReported ==
    Called /\ opt.args.symbol \in Instruments =>
        /\ opt.outcome.kind = "returned" => opt.outcome.value.data_points >= 1
        /\ ~BarInRange(opt.args) =>
              /\ FailedWith("DataUnavailable")
              /\ ~opt.outcome.value.cerebro
              /\ HasBars(opt.args) => opt.outcome.value.range # None

\* C21: for daily and for intraday candles alike, when the requested end
\* date lies after the day of the call the candles are queried up to
\* min(end_date, today) and a warning is recorded, and the query never
\* reaches past the day of the call.
C21_FutureEndClipped ==
    Called /\ opt.args.symbol \in Instruments =>
        /\ opt.outcome.effective_end # None
        /\ Num(opt.outcome.effective_end) <= CallBars
        /\ opt.args.end_date > CallBars =>
              /\ opt.outcome.effective_end = Some(CallBars)
              /\ opt.outcome.warned
        /\ opt.args.end_date <= CallBars =>
              /\ opt.outcome.effective_end = Some(opt.args.end_date)
              /\ ~opt.outcome.warned

\* the orders run r submitted at bar i, each with its side and size
Decision(r, i) ==
    {[isbuy |-> runs[r].orderlog[j].isbuy, size |-> runs[r].orderlog[j].size] :
        j \in {j \in DOMAIN runs[r].orderlog : runs[r].orderlog[j].bar = i}}

\* C22: no strategy decision looks ahead: two runs of a strategy, with the
\* same parameters, over two series that agree on every bar up to bar i
\* take the same decision (buy, sell or nothing, and its size) at bar i.
C22_NoLookAhead ==
    DOMAIN runs = {1, 2} /\ runs[1].commission = runs[2].commission =>
        \A i \in 1 .. Len(data) :
            i <= Buflen(runs[1]) /\ i <= Buflen(runs[2]) =>
                Decision(1, i) = Decision(2, i)

\* C24: for daily and for minute runs alike, the timestamps of consecutive
\* equity points are strictly increasing, no two equity points of a run
\* share a timestamp, and each point is at a later bar than the one before.
C24_EquityTimestampsIncrease ==
    Called /\ opt.outcome.kind = "returned" =>
        \A i \in DOMAIN opt.outcome.value.equity_curve :
        \A j \in DOMAIN opt.outcome.value.equity_curve :
            i < j =>
                /\ opt.outcome.value.equity_curve[i].date
                      < opt.outcome.value.equity_curve[j].date
                /\ opt.outcome.value.equity_curve[i].bar
                      < opt.outcome.value.equity_curve[j].bar

----------------------------------------------------------------------------
(* Properties of aggregate_kline.                                          *)

Aggregated == opt.op = "aggregate_kline" /\ opt.outcome.kind = "returned"

\* the positions of the 1-minute candles that fall in the bin starting at t
InBin(t) ==
    {i \in DOMAIN minutes :
        /\ t <= minutes[i].datetime
        /\ minutes[i].datetime < t + opt.args.interval_minutes}

\* the candle stands between its low and its high
Sound(c) ==
    /\ c.low <= c.open /\ c.low <= c.close
    /\ c.open <= c.high /\ c.close <= c.high

\* C25: aggregate_kline groups the 1-minute candles into bins of fixed
\* width; every bin with a candle yields one output candle, in time order,
\* with the open of its first candle, the highest high, the lowest low, the
\* close of its last candle and the sums of volume and amount; a bin with
\* no candle yields none; total volume is preserved and the output candles
\* stand between low and high when the inputs do.
C25_AggregateKline ==
    Aggregated =>
        LET out == opt.outcome.value
            w   == opt.args.interval_minutes
        IN  /\ \A k \in DOMAIN out :
                  /\ out[k].datetime % w = 0
                  /\ InBin(out[k].datetime) # {}
                  /\ out[k].open = minutes[MinOf(InBin(out[k].datetime))].open
                  /\ out[k].close = minutes[MaxOf(InBin(out[k].datetime))].close
                  /\ \A i \in InBin(out[k].datetime) :
                        out[k].high >= minutes[i].high /\ out[k].low <= minutes[i].low
                  /\ \E i \in InBin(out[k].datetime) : out[k].high = minutes[i].high
                  /\ \E i \in InBin(out[k].datetime) : out[k].low = minutes[i].low
                  /\ out[k].volume
                       = SumOf(SelectSeq(minutes, LAMBDA c :
                                   out[k].datetime <= c.datetime
                                   /\ c.datetime < out[k].datetime + w), "volume")
                  /\ out[k].amount
                       = SumOf(SelectSeq(minutes, LAMBDA c :
                                   out[k].datetime <= c.datetime
                                   /\ c.datetime < out[k].datetime + w), "amount")
            /\ \A j \in DOMAIN out, k \in DOMAIN out :
                  j < k => out[j].datetime < out[k].datetime
            /\ \A i \in DOMAIN minutes :
                  \E k \in DOMAIN out : i \in InBin(out[k].datetime)
            /\ SumOf(out, "volume") = SumOf(minutes, "volume")
            /\ (\A i \in DOMAIN minutes : Sound(minutes[i]))
                  => \A k \in DOMAIN out : Sound(out[k])

\* candles of one bin aggregated, with an empty bin between two bins that
\* hold candles
C25_GapBetweenBins ==
    /\ Aggregated
    /\ Len(minutes) = 3
    /\ Len(opt.outcome.value) = 2
    /\ opt.outcome.value[2].datetime
          > opt.outcome.value[1].datetime + opt.args.interval_minutes
    /\ opt.outcome.value[1].close # opt.outcome.value[1].open
    /\ \E k \in DOMAIN opt.outcome.value :
          Cardinality(InBin(opt.outcome.value[k].datetime)) = 2

----------------------------------------------------------------------------
(* Properties of the optimizer loops.                                      *)

InLoop == opt.op \in {"optimize_single_strategy", "batch_backtest_all_strategies"}

Over == InLoop /\ opt.outcome.kind # "none"

\* the iterations whose run returned, in the order of the loop
Successes == SelectSeq(opt.log, LAMBDA e : e.kind = "returned")

\* result k of the list is the result of the k-th successful iteration
ResultOf(k) ==
    /\ results[k].strategy_params = opt.combinations[Successes[k].index].params
    /\ opt.op = "batch_backtest_all_strategies" =>
          results[k].strategy_name
             = opt.combinations[Successes[k].index].strategy_name

Untagged(result) ==
    [f \in DOMAIN result \ {"strategy_params", "strategy_name", "symbol"} |->
        result[f]]

\* result k comes from a call with the arguments of the stand-alone call
SameArguments(k) ==
    LET c == opt.combinations[Successes[k].index]
    IN  /\ opt.args.symbol \in Instruments
        /\ opt.args.commission = runs[1].commission
        /\ c.strategy_name = runs[1].strategy
        /\ \A f \in DOMAIN c.params : c.params[f] = runs[1].params[f]

C19_UnknownStrategySurfaced ==
    /\ opt.op = "optimize_single_strategy"
    /\ opt.args.strategy_name \notin STRATEGY_REGISTRY
    /\ Over
    => /\ opt.outcome.kind = "raised"
       /\ opt.outcome.value = "UnknownStrategy"

----------------------------------------------------------------------------
(* Properties of batch_optimize_all_etfs.                                  *)

\* the call has returned
AllEtfsOver ==
    opt.op = "batch_optimize_all_etfs" /\ opt.outcome.kind = "returned"

\* the symbols of a list of rows
SymbolsOf(rows) == {rows[i].symbol : i \in DOMAIN rows}

----------------------------------------------------------------------------
(* Properties of Pyramid Add.  A state shows run r when the bar            *)
(* Replayed(r) is over: the broker has settled the order of the bar        *)
(* before, so that no order was pending when next() ran, and the position  *)
(* and the entry memory are those next() saw.                              *)

Pyramid(r) == runs[r].strategy = "pyramid_add" /\ runs[r].status # "error"

\* a position was held when next() of the last bar ran
Held(r) == Replayed(r) >= 1 /\ QLt(QZero, runs[r].possize)

\* the orders submitted at the last bar
OrdersNow(r) ==
    {i \in DOMAIN runs[r].orderlog : runs[r].orderlog[i].bar = Replayed(r)}

LastClose(r) == QI(data[Replayed(r)].close)

\* close < high-water-mark * (1 - stop_loss_pct)
Trailing(r) ==
    /\ runs[r].highest_price # NoPrice
    /\ QLt(LastClose(r), QMul(runs[r].highest_price,
                              QSub(QI(1), runs[r].params.stop_loss_pct)))

\* close < first entry price * (1 - stop_loss_pct)
Hard(r) ==
    /\ runs[r].entry_prices # << >>
    /\ QLt(LastClose(r), QMul(runs[r].entry_prices[1],
                              QSub(QI(1), runs[r].params.stop_loss_pct)))

\* C28: with a position held and no order pending, a close below the
\* high-water-mark or the first entry price by stop_loss_pct makes exactly
\* one order of the bar, a Sell of the whole position, and no add; the
\* trailing stop is the one that acts when both hold
C28_StopSellsEverything ==
    \A r \in DOMAIN runs :
        Pyramid(r) /\ Held(r) /\ (Trailing(r) \/ Hard(r)) =>
            /\ \E i \in DOMAIN runs[r].orderlog :
                  /\ OrdersNow(r) = {i}
                  /\ ~runs[r].orderlog[i].isbuy
                  /\ runs[r].orderlog[i].size = runs[r].possize
                  /\ runs[r].orderlog[i].pending = NoOrder
            /\ runs[r].stops # << >>
            /\ runs[r].stops[Len(runs[r].stops)]
                 = [bar |-> Replayed(r),
                    rule |-> IF Trailing(r) THEN "trailing" ELSE "hard"]

\* C28 is reached with both stops holding, with the trailing stop alone
\* and with the hard stop alone
C28_BothStops ==
    \E r \in DOMAIN runs : Pyramid(r) /\ Held(r) /\ Trailing(r) /\ Hard(r)

\* the index of the last sell among the trade points, 0 when there is none
LastSell(tp) ==
    IF \E i \in DOMAIN tp : tp[i].type = "sell"
      THEN CHOOSE i \in DOMAIN tp :
             /\ tp[i].type = "sell"
             /\ \A j \in DOMAIN tp : tp[j].type = "sell" => j <= i
      ELSE 0

\* the fills since the last sell: those of the position held
OwnFills(r) ==
    SubSeq(runs[r].trade_points, LastSell(runs[r].trade_points) + 1,
           Len(runs[r].trade_points))

\* the greatest close from bar `first` to the last bar
HighestClose(r, first) ==
    CHOOSE c \in {data[i].close : i \in first .. Replayed(r)} :
        \A i \in first .. Replayed(r) : data[i].close <= c

\* C29: the entry memory of Pyramid Add is that of the position held: the
\* entry prices are the prices of the buys filled since the last sell, with
\* one entry size each, and the high-water-mark is the highest close since
\* the first of these fills; when the position is flat, after a Sell fill
\* and before the first buy, the three are empty; with a position the entry
\* prices are not empty and the first is the fill price of the initial buy
C29_EntryMemoryOfPosition ==
    \A r \in DOMAIN runs :
        Pyramid(r) =>
            /\ Len(runs[r].entry_prices) = Len(OwnFills(r))
            /\ \A i \in DOMAIN OwnFills(r) :
                  /\ OwnFills(r)[i].type = "buy"
                  /\ runs[r].entry_prices[i] = OwnFills(r)[i].price
            /\ Len(runs[r].entry_sizes) = Len(runs[r].entry_prices)
            /\ runs[r].possize = QZero =>
                  /\ runs[r].entry_prices = << >>
                  /\ runs[r].entry_sizes = << >>
                  /\ runs[r].highest_price = NoPrice
            /\ Held(r) =>
                  /\ runs[r].entry_prices # << >>
                  /\ runs[r].entry_prices[1] = QI(data[OwnFills(r)[1].bar].open)
                  /\ runs[r].highest_price
                       = QI(HighestClose(r, OwnFills(r)[1].bar))

\* C29 is reached by a second position, entered at another price than the
\* first and after a higher close
C29_SecondPosition ==
    \E r \in DOMAIN runs :
        /\ Pyramid(r) /\ Held(r)
        /\ LastSell(runs[r].trade_points) > 0
        /\ runs[r].entry_prices[1] # runs[r].trade_points[1].price
        /\ \E i \in 1 .. Replayed(r) : QLt(runs[r].highest_price, QI(data[i].close))

\* neither stop fires at the last bar, with a position held
NoStop(r) == Pyramid(r) /\ Held(r) /\ ~Trailing(r) /\ ~Hard(r)

\* a buy was submitted at the last bar
Added(r) == \E i \in OrdersNow(r) : runs[r].orderlog[i].isbuy

\* int(equity * initial_position_size / close)
InitialSizing(r) ==
    QFloor(QDiv(QMul(GetValue(runs[r], data[Replayed(r)]),
                     runs[r].params.initial_position_size),
                LastClose(r)))

\* close > entry price * (1 + add_position_threshold)
Gained(r, entry_price) ==
    QLt(QMul(entry_price, QAdd(QI(1), runs[r].params.add_position_threshold)),
        LastClose(r))

LatestEntry(r) == runs[r].entry_prices[Len(runs[r].entry_prices)]

\* the order of the last bar, if any, is one buy of the initial sizing
AddOfInitialSizing(r) ==
    \A i \in OrdersNow(r) :
        /\ OrdersNow(r) = {i}
        /\ runs[r].orderlog[i].isbuy
        /\ runs[r].orderlog[i].size = QI(InitialSizing(r))

----------------------------------------------------------------------------
(* Properties of Swing Trading, on the state that shows run r when next()  *)
(* of the bar Replayed(r) is over.                                         *)

Swing(r) ==
    /\ runs[r].strategy = "swing" /\ runs[r].status # "error"
    /\ Replayed(r) >= MinPeriod("swing", runs[r].params)

\* no position at the last bar; no order is pending when next() runs
FlatAtBar(r) == runs[r].possize = QZero

BoughtNow(r) == \E i \in OrdersNow(r) : runs[r].orderlog[i].isbuy

\* fast SMA > slow SMA at the last bar
Uptrend(r) ==
    QLt(SMA(CloseLine(data), runs[r].params.trend_period, Replayed(r)),
        SMA(CloseLine(data), 10, Replayed(r)))

\* close <= 1.02 * swing low
NearSwingLow(r) ==
    QLe(LastClose(r),
        QMul(QI(Lowest(data, runs[r].params.swing_period, Replayed(r))), Q(51, 50)))

\* the retracement of the close from the swing-period high is at least
\* pullback_ratio
Retraced(r) ==
    LET h == QI(Highest(data, runs[r].params.swing_period, Replayed(r)))
    IN  QLe(runs[r].params.pullback_ratio, QDiv(QSub(h, LastClose(r)), h))

\* C31: Swing Trading, while flat with no pending order and at least
\* trend_period bars seen, submits a Buy at a bar exactly when the fast SMA
\* is above the slow SMA and either close <= 1.02 * swing low or the
\* retracement of the close from the swing-period high is >= pullback_ratio
C31_BuyOnPullback ==
    \A r \in DOMAIN runs :
        Swing(r) /\ FlatAtBar(r) =>
            (BoughtNow(r) <=> Uptrend(r) /\ (NearSwingLow(r) \/ Retraced(r)))

----------------------------------------------------------------------------
(* Properties of Candlestick Pattern, on the state that shows run r when   *)
(* next() of the bar Replayed(r) is over.                                  *)

Candle(r) ==
    /\ runs[r].strategy = "candlestick" /\ runs[r].status # "error"
    /\ Replayed(r) >= 1

\* the patterns the last bar shows
Shown(r) ==
    IF Replayed(r) < 2 THEN {}
    ELSE LET ps == Patterns(data, Replayed(r), runs[r].params)
         IN  {ps[i] : i \in DOMAIN ps}

\* the pattern name ends with the name of the type
EndsWith(pattern, type) ==
    /\ Len(Text(type)) <= Len(Text(pattern))
    /\ SubSeq(Text(pattern), Len(Text(pattern)) - Len(Text(type)) + 1,
              Len(Text(pattern))) = Text(type)

\* the last bar shows a bullish pattern of the configured type
BullishOfType(r) ==
    \E p \in Shown(r) \cap {"bullish_hammer", "bullish_engulfing", "doji"} :
        runs[r].params.pattern_type = "all" \/ EndsWith(p, runs[r].params.pattern_type)

\* the close is above the close confirmation_period bars earlier
Confirmed(r) ==
    /\ Replayed(r) > runs[r].params.confirmation_period
    /\ data[Replayed(r)].close
         > data[Replayed(r) - runs[r].params.confirmation_period].close

SoldNow(r) == \E i \in OrdersNow(r) : ~runs[r].orderlog[i].isbuy

\* C32: Candlestick Pattern, with no order pending: while flat a Buy is
\* submitted on a bar showing a bullish pattern of the configured type
\* (hammer, engulfing, doji; any of them with 'all') whose close is above
\* the close confirmation_period bars earlier, and on no other bar; while
\* long a Sell is submitted on a bearish hammer or bearish engulfing, or
\* else when close < 0.95 * entry price
C32_PatternOfConfiguredType ==
    \A r \in DOMAIN runs :
        Candle(r) =>
            /\ FlatAtBar(r) => (BoughtNow(r) <=> BullishOfType(r) /\ Confirmed(r))
            /\ ~FlatAtBar(r) =>
                  (SoldNow(r) <=>
                     \/ Shown(r) \cap {"bearish_hammer", "bearish_engulfing"} # {}
                     \/ QLt(LastClose(r), QMul(runs[r].posprice, Q(19, 20))))

----------------------------------------------------------------------------
(* Properties of VCP, on the state that shows run r when next() of the bar *)
(* Replayed(r) is over.                                                    *)

Vcp(r) ==
    /\ runs[r].strategy = "vcp" /\ runs[r].status # "error"
    /\ Replayed(r) >= MinPeriod("vcp", runs[r].params)

----------------------------------------------------------------------------
(* Properties of Trend Following, on the state that shows run r when       *)
(* next() of the bar Replayed(r) is over.                                  *)

Trend(r) ==
    /\ runs[r].strategy = "trend_following" /\ runs[r].status # "error"
    /\ Replayed(r) >= MinPeriod("trend_following", runs[r].params)

\* the exit rules at the last bar
Reversal(r) == ~TrendUp(runs[r], Loaded(runs[r], data))

TrailingBreach(r) ==
    /\ runs[r].highest_price # NoPrice
    /\ QLt(LastClose(r), QMul(runs[r].highest_price,
                              QSub(QI(1), runs[r].params.trailing_stop)))

Weak(r) ==
    QLt(ADX(data, runs[r].params.adx_period, Replayed(r)),
        QMul(QI(runs[r].params.adx_threshold), Q(4, 5)))

\* the greater of the fill price of the position and every close since
HighWaterMark(r) ==
    QMax(OwnFills(r)[1].price, QI(HighestClose(r, OwnFills(r)[1].bar)))

\* C34: Trend Following: while a position is held the high-water-mark is
\* the maximum of the entry fill price and every close since the fill, and
\* it is none once the Sell has filled; at a bar with a position and no
\* pending order one Sell is submitted when the fast SMA is not above the
\* slow SMA, else when close < high-water-mark * (1 - trailing_stop), else
\* when ADX < 0.8 * adx_threshold, the rule that acts being the first of
\* these in that order, and nothing is submitted when none holds
C34_HighWaterMarkAndExits ==
    \A r \in DOMAIN runs :
        Trend(r) =>
            /\ FlatAtBar(r) => runs[r].highest_price = NoPrice
            /\ ~FlatAtBar(r) =>
                  /\ OwnFills(r) # << >>
                  /\ runs[r].highest_price = HighWaterMark(r)
                  /\ SoldNow(r) <=> Reversal(r) \/ TrailingBreach(r) \/ Weak(r)
                  /\ ~BoughtNow(r)
                  /\ \A i \in OrdersNow(r) :
                        /\ OrdersNow(r) = {i}
                        /\ runs[r].orderlog[i].size = runs[r].possize
                        /\ runs[r].stops[Len(runs[r].stops)]
                             = [bar |-> Replayed(r),
                                rule |-> IF Reversal(r) THEN "reversal"
                                         ELSE IF TrailingBreach(r) THEN "trailing"
                                         ELSE "weak"]

\* C34 is reached by an exit where the trend has reversed and the trailing
\* stop is breached at the same bar
C34_ReversedAndBreached ==
    \E r \in DOMAIN runs :
        Trend(r) /\ ~FlatAtBar(r) /\ Reversal(r) /\ TrailingBreach(r)

----------------------------------------------------------------------------
(* Undefined indicator values (MACrossStrategy, MACDStrategy, RSIStrategy). *)

\* the first bar at which the value next() reads exists: CrossOver needs one
\* bar more than the lines it compares, RSI one bar more than its period
FirstValueBar(strategy, P) ==
    CASE strategy = "macross" -> Max2(P.fast_period, P.slow_period) + 1
      [] strategy = "macd" -> Max2(P.fast_period, P.slow_period) + P.signal_period - 1 + 1
      [] strategy = "rsi" -> P.period + 1

\* the value is undefined at the last bar of run r: not yet available, or
\* (RSI) a quotient by an average loss of zero
Undefined(r) ==
    /\ runs[r].strategy \in {"macross", "macd", "rsi"}
    /\ Replayed(r) >= 1
    /\ \/ Replayed(r) < FirstValueBar(runs[r].strategy, runs[r].params)
       \/ runs[r].strategy = "rsi" /\ runs[r].lines.madown = QZero

\* the strategy and its broker are as they were when the run started
Untouched(r) ==
    /\ runs[r].orderlog = << >>
    /\ runs[r].order = NoOrder
    /\ runs[r].submitted = << >>
    /\ runs[r].trade_points = << >>
    /\ runs[r].possize = QZero
    /\ runs[r].cash = runs[r].startingcash

\* C35: MA Crossover, MACD Crossover and RSI Threshold submit no order at a
\* bar where the crossover (RSI) value is undefined, and nothing of the
\* strategy but its equity curve changes at such a bar: the undefined bars
\* are the first bars of the series, so the run is still as it started.
C35_UndefinedValueIsNoSignal ==
    \A r \in DOMAIN runs : Undefined(r) => Untouched(r)

\* a MACD run at the last bar before its crossover has a value, two bars
\* at least into the series
C35_LastBarOfWarmUp ==
    \E r \in DOMAIN runs :
        /\ runs[r].strategy = "macd"
        /\ Undefined(r)
        /\ Replayed(r) >= 2
        /\ Replayed(r) = FirstValueBar("macd", runs[r].params) - 1

----------------------------------------------------------------------------
(* Pyramid Add: a computed share count of zero.                            *)

\* close > SMA(ma_period) and open > previous close * (1 + high_open_threshold)
\* at the last bar
EntrySignal(r) ==
    /\ Replayed(r) >= runs[r].params.ma_period + 1
    /\ QLt(SMA(CloseLine(data), runs[r].params.ma_period, Replayed(r)), LastClose(r))
    /\ QLt(QMul(QI(data[Replayed(r) - 1].close),
                QAdd(QI(1), runs[r].params.high_open_threshold)),
           QI(data[Replayed(r)].open))

\* next() of the last bar computed the share count: for the initial entry,
\* or for an add
Sized(r) ==
    /\ runs[r].strategy = "pyramid_add"
    /\ \/ FlatAtBar(r) /\ EntrySignal(r)
       \/ /\ NoStop(r)
          /\ Replayed(r) >= runs[r].params.ma_period + 1
          /\ Gained(r, runs[r].entry_prices[1])
          /\ Gained(r, LatestEntry(r))

\* C36: Pyramid Add, when the share count int(equity * initial_position_size
\* / close) computed for the initial entry or for an add is zero or
\* negative: no order is submitted at the bar, self.order stays empty, no
\* error is raised and the run goes on.
C36_ZeroSizeIsNoTrade ==
    \A r \in DOMAIN runs :
        Sized(r) /\ InitialSizing(r) <= 0 =>
            /\ OrdersNow(r) = {}
            /\ runs[r].order = NoOrder
            /\ runs[r].submitted = << >>
            /\ runs[r].status \in {"running", "done"}

\* an add that comes to no share, on a position of one share, and the run
\* still going
C36_AddOfNoShare ==
    \E r \in DOMAIN runs :
        /\ Sized(r) /\ Held(r)
        /\ InitialSizing(r) = 0
        /\ runs[r].status = "running"

----------------------------------------------------------------------------
(* ExecutionGateway in simulation mode.                                    *)

\* the price call k executed on: the one given, or the close of the latest
\* bar; none when a market order found no latest bar
PriceKnown(k) ==
    \/ gateway.calls[k].order.price # None
    \/ gateway.calls[k].query = "answers" /\ gateway.calls[k].latest_bar # None

OrderPrice(k) ==
    IF gateway.calls[k].order.price # None THEN Num(gateway.calls[k].order.price)
    ELSE Num(gateway.calls[k].latest_bar)

\* call k wrote exactly one trade record and returned True
WroteOne(k) ==
    /\ gateway.calls[k].returned
    /\ gateway.calls[k].after = gateway.calls[k].before + 1

----------------------------------------------------------------------------
(* Buys and sells of a run, over every strategy.                           *)

\* the recorded fills alternate buy, sell, buy, ... from a buy
Alternating(tp) ==
    \A i \in DOMAIN tp : tp[i].type = (IF i % 2 = 1 THEN "buy" ELSE "sell")

\* every recorded sell comes after a buy recorded since the sell before it
SellsAfterBuys(tp) ==
    \A i \in DOMAIN tp : tp[i].type = "sell" => i > 1 /\ tp[i - 1].type = "buy"

\* C38: every strategy but Pyramid Add submits a Buy only while flat and a
\* Sell only while long, and its recorded fills alternate strictly buy,
\* sell, buy, ... starting with a buy; for Pyramid Add every recorded sell
\* is preceded by at least one buy since the previous sell. The position
\* at the last bar is the one next() saw: an order of the bar is not filled
\* before the next bar.
C38_BuysAndSellsAlternate ==
    \A r \in DOMAIN runs :
        IF runs[r].strategy = "pyramid_add"
          THEN SellsAfterBuys(runs[r].trade_points)
          ELSE /\ BoughtNow(r) => FlatAtBar(r)
               /\ SoldNow(r) => QLt(QZero, runs[r].possize)
               /\ Alternating(runs[r].trade_points)

\* a run, not of Pyramid Add, that bought, sold and bought again
C38_BoughtSoldBought ==
    \E r \in DOMAIN runs :
        /\ runs[r].strategy # "pyramid_add"
        /\ Len(runs[r].trade_points) >= 3

----------------------------------------------------------------------------
(* Cash and position of the broker.                                        *)

\* the sells submitted at the last bar are for no more than the position
SellsWithinPosition(r) ==
    \A i \in OrdersNow(r) :
        ~runs[r].orderlog[i].isbuy => QLe(runs[r].orderlog[i].size, runs[r].possize)

\* C39: in every state of a run the cash of the broker is >= 0 and the
\* position is >= 0: no strategy opens a short position, and a Sell is for
\* no more than the quantity held.
C39_NoDebtNoShort ==
    \A r \in DOMAIN runs :
        /\ QLe(QZero, runs[r].cash)
        /\ QLe(QZero, runs[r].possize)
        /\ SellsWithinPosition(r)

\* a run that had a buy rejected for lack of cash, bought later and sold
C39_RejectedBoughtSold ==
    \E r \in DOMAIN runs :
        /\ \E k \in DOMAIN runs[r].notiflog : runs[r].notiflog[k].status = "Margin"
        /\ Len(runs[r].trade_points) >= 2
        /\ runs[r].trade_points[Len(runs[r].trade_points)].type = "sell"
        /\ runs[r].possize = QZero

====
